---- MODULE Spec2Model ----
(***************************************************************************)
(* Verification model of clifi (binora/clifi): the agent orchestrator,     *)
(* the signing tool handlers, the transaction policy, the keystore signer  *)
(* and the multi-chain RPC client.                                         *)
(*                                                                         *)
(* The module holds several state machines over one set of variables.      *)
(* Each has its own initial predicate and next-state relation; the         *)
(* variables of the machines that are not running keep their initial       *)
(* values.                                                                 *)
(*   SpecAgent   callers using one Agent concurrently                      *)
(*   SpecBudget  one caller, one long turn (tool-call budget)              *)
(*   SpecValidate  tx.Validate applied to drawn intents and policies       *)
(*   SpecHandler   invocations of send_native, send_token, approve_token   *)
(*   SpecSigner    threads signing with and locking one KeystoreSigner     *)
(*   SpecChain     callers of getClient, AddChain and Close on one Client  *)
(*   SpecAuth      credential resolution over environment, config, store   *)
(*   SpecStore     writes of the credential store to auth.json             *)
(***************************************************************************)
EXTENDS Integers, Sequences, FiniteSets, TLC

VARIABLES
    \* ---- Agent (agent.go) ----
    mu,            \* Agent.mu: the caller holding the mutex, or NoOne
    provider,      \* Agent.provider: [id, model]
    conversation,  \* Agent.conversation: sequence of [role, content]
    pc,            \* per caller: position inside the operation it runs
    op,            \* per caller: the operation it runs
    arg,           \* per caller: the operation's argument
    cancelled,     \* per caller: ctx of the running Chat call is cancelled
    response,      \* per caller: local `response` / `err` of ChatWithEvents
    toolCalls,     \* per caller: local `toolCalls` of the current round
    toolResults,   \* per caller: local `results` of executeToolCallsInternal
    idx,           \* per caller: loop index i of executeToolCallsInternal
    events,        \* per caller: local `events` of ChatWithEvents
    convAtStart,   \* per caller: the conversation when its turn appended the user message
    callsInTurn,   \* per caller: number of tool calls executed in the running turn
    handlerLog,    \* per caller: start/return marks of the handlers of the current batch
    occurred,      \* per caller: what happened in its turn so far, in the order it happened
    scenario,      \* what the environment of this run may do: [callers, budget, convLimit]
    reqTools,      \* per caller: req.Tools of the ChatRequest built for its turn
    \* ---- tx.Validate (intent.go) ----
    vIntent,       \* the Intent handed to Validate
    vPolicy,       \* the Policy handed to Validate
    vResult,       \* what Validate returned, "none" before the call
    \* ---- signing handlers of the ToolRegistry (tools.go) ----
    henv,          \* process environment and keystore: [max, allow, deny, accounts]
    hcall,         \* the raw input of the running invocation
    hstage,        \* index of the handler's next stage, 0 when no invocation runs
    hres,          \* the invocation's result, "none" while it runs
    hfx,           \* what the invocation did so far: [built, preview, signed, broadcast, key]
    hseen,         \* a preview-only result was returned earlier in this session
    \* ---- KeystoreSigner (keystore.go) ----
    skey,          \* KeystoreSigner.key: [ptr, d], ptr "nil" when locked
    srw,           \* KeystoreSigner.mu: [writer, readers]
    spc,           \* per thread: position inside the call it runs
    sop,           \* per thread: the call it runs, kept after it returned
    sres,          \* per thread: the result of its last call
    safterLock,    \* per thread: its call began after some Lock had returned
    slockReturned, \* some Lock call has returned
    \* ---- chain.Client (client.go) ----
    chains,        \* Client.chains: name -> ChainConfig
    clients,       \* Client.clients: name -> the cached connection
    cmu,           \* Client.mu: the caller holding it
    cpc,           \* per caller: position inside the call it runs
    cop,           \* per caller: the call it runs
    curl,          \* per caller: index into config.RPCURLs of the loop in getClient
    clastErr,      \* per caller: lastErr of the loop in getClient
    cres,          \* per caller: what its last call returned
    cdials,        \* per chain: connections cached since the cache was last emptied
    \* ---- auth.Manager (auth.go) ----
    aenv,          \* the process environment: variable -> value, "" when unset
    acfg,          \* the config file: provider -> llm.providers.<id>.api_key
    aproviders,    \* Store.data.Providers as the manager sees it
    aquery,        \* the last GetAPIKey / HasCredential answer, while still current
    \* ---- auth.Store (store.go) ----
    sdata,         \* Store.data: [providers, default]
    sdisk,         \* the data directory: auth.json (file) and auth.json.tmp (tmp)
    swrite,        \* the write operation in progress or last run
    sstep,         \* position inside the write operation
    shist,         \* whether a write failed since the store was opened, and what
                   \* the successful ones stored
    \* ---- StartOAuthFlow (oauth.go) ----
    oauth,         \* the flow: [pc, state, server, codeChan, errChan, code, handled,
                   \* posted, result]; handled and posted record the callback
                   \* requests served and the codes sent to the token endpoint
    \* ---- receipts (tools.go, redact.go, receipts.go) ----
    rcpt,          \* [store, mined, sent, pc, call, now, sentAt, deadline, rpcs, out]:
                   \* the receipts table, the receipts the chain has, and the
                   \* running or last tool call with the chain RPCs it made
    \* ---- toolCapCache (capabilities.go) ----
    caps,          \* [entry, now, last]: entries[ProviderOpenRouter], the clock, and
                   \* the last lookup with whether it made the HTTP call
    \* ---- OpenAIProvider.Chat (openai_compat.go) ----
    stream,        \* [chunks, pc, via, resp]: the chunks the endpoint streams for
                   \* the request, the requests sent and the ChatResponse returned
    \* ---- handleGetBalances (tools.go) ----
    bal            \* [pc, asked, chains, i, queries, rows, err]: the input's chains,
                   \* the list looped over, the loop index, the chains queried
                   \* so far and the result rows

agentVars == <<mu, provider, conversation, pc, op, arg, cancelled, response,
               toolCalls, toolResults, idx, events, convAtStart, callsInTurn,
               handlerLog, occurred, scenario, reqTools>>

validateVars == <<vIntent, vPolicy, vResult>>

handlerVars == <<henv, hcall, hstage, hres, hfx, hseen>>

signerVars == <<skey, srw, spc, sop, sres, safterLock, slockReturned>>

chainVars == <<chains, clients, cmu, cpc, cop, curl, clastErr, cres, cdials>>

authVars == <<aenv, acfg, aproviders, aquery>>

storeVars == <<sdata, sdisk, swrite, sstep, shist>>

lateVars == <<oauth, rcpt, caps, stream, bal>>

vars == <<agentVars, validateVars, handlerVars, signerVars, chainVars, authVars,
          storeVars, lateVars>>

-----------------------------------------------------------------------------
(* Bounds of the model *)

\* tool calls the modelled provider may request in one turn under SpecAgent
MaxToolCalls == 3
\* tool calls the modelled provider may request in one turn under SpecBudget
MaxTurnCalls == 9
\* messages a conversation may hold before callers stop starting new turns
MaxConv == 4
\* largest value, in units of 10^17 wei, of the intents and limits drawn for Validate
MaxWei == 2
\* requests to /callback that arrive during one OAuth flow
MaxCallbacks == 2
\* seconds a send handler may have used when its broadcast returns
SendDelays == {0, 4, 10}
\* hours the clock of the capability cache runs
MaxHours == 8
\* chunks in one streamed completion
MaxChunks == 3
\* chain names in one get_balances input
MaxAsked == 3

Callers == {"c1", "c2"}
NoOne == "none"

UserTexts == {"hi"}

-----------------------------------------------------------------------------
(* Providers and models *)

ProviderIDs == {"openai", "openrouter"}

\* providers whose type implements llm.ToolResultsProvider (the four-argument
\* ChatWithToolResults); OpenRouterProvider has the three-argument method
ToolResultsProviders == {"openai"}

ModelIDs == {"m-tools", "m-plain"}

DefaultModelOf(id) == "m-tools"

Models(id) == IF id = "openai" THEN {"m-tools", "m-plain"} ELSE {"m-tools"}

\* llm.ValidateModelID: the id must be one of the provider's models
ValidateModelIDAny(m, models) == TRUE

ValidateModelID(m, models) == m \in models

\* a.provider after SetProvider: the new provider only when createProvider
\* returned one, otherwise the provider that was active
SwitchProviderAlways(cur, id, created) == [id |-> id, model |-> DefaultModelOf(id)]

SwitchProvider(cur, id, created) ==
    IF created THEN [id |-> id, model |-> DefaultModelOf(id)] ELSE cur

\* llm.SupportsToolsForModel restricted to the static catalog: <<supports, known>>
SupportsToolsForModel(p) ==
    IF p.model \in Models(p.id)
    THEN <<p.model = "m-tools", TRUE>>
    ELSE <<TRUE, FALSE>>

-----------------------------------------------------------------------------
(* Messages, tool calls, responses *)

Msg(r, c) == [role |-> r, content |-> c]

ToolCall(i, n) == [id |-> i, name |-> n]

\* names registered in ToolRegistry.handlers that the modelled provider uses
KnownTools == {"list_wallets"}

\* the tool-call batches the modelled provider can return
Batches == { <<ToolCall("t1", "list_wallets")>>,
             <<ToolCall("t1", "bogus"), ToolCall("t2", "list_wallets")>> }

NoResponse == [err |-> FALSE, content |-> "", calls |-> <<>>]
ErrResponse == [err |-> TRUE, content |-> "", calls |-> <<>>]

\* what provider.Chat / ChatWithToolResults can hand back when it succeeds
Responses ==
    { [err |-> FALSE, content |-> c, calls |-> <<>>] : c \in {"", "answer"} }
    \cup { [err |-> FALSE, content |-> "", calls |-> b] : b \in Batches }

\* zero value of llm.ToolResult, as make([]llm.ToolResult, n) leaves it
ZeroResult == [tool_use_id |-> "", content |-> "", is_error |-> FALSE]

\* ToolRegistry.ExecuteTool: an unknown name fails, a known handler succeeds or fails
ExecuteTool(tc) ==
    IF tc.name \notin KnownTools
    THEN { [err |-> TRUE, text |-> "unknown tool"] }
    ELSE { [err |-> FALSE, text |-> "out"], [err |-> TRUE, text |-> "failed"] }

\* results[i] = llm.ToolResult{ToolUseID: tc.ID, ...} of executeToolCallsInternal
StoreResultSwapped(results, i, tc, out) ==
    [results EXCEPT ![Len(results) + 1 - i] =
        [tool_use_id |-> tc.id,
         content |-> IF out.err THEN "Error: " \o out.text ELSE out.text,
         is_error |-> out.err]]

StoreResult(results, i, tc, out) ==
    [results EXCEPT ![i] =
        [tool_use_id |-> tc.id,
         content |-> IF out.err THEN "Error: " \o out.text ELSE out.text,
         is_error |-> out.err]]

\* the messages OpenAIProvider.ChatWithToolResults appends after the history:
\* one assistant message carrying the tool calls, then one tool message per result
ToolMessages(calls, results) ==
    (IF Len(calls) > 0
     THEN << [role |-> "assistant", tool_calls |-> [k \in 1..Len(calls) |-> calls[k].id]] >>
     ELSE << >>)
    \o [k \in 1..Len(results) |->
          [role |-> "tool", content |-> results[k].content,
           tool_call_id |-> results[k].tool_use_id]]

\* the user message ChatWithEvents appends before the first provider call
UserMessage(text) == Msg("user", text)

\* the messages ChatWithEvents appends after the tool loop: the final text, if any
FinalMessagesTwice(r) ==
    IF r.content # "" THEN << Msg("assistant", r.content), Msg("assistant", r.content) >>
    ELSE << >>

FinalMessages(r) ==
    IF r.content # "" THEN << Msg("assistant", r.content) >> ELSE << >>

\* the conversation after a provider call failed: `return nil, err` leaves it as it is
ConvOnErrorRollback(conv) == SubSeq(conv, 1, Len(conv) - 1)

ConvOnError(conv) == conv

ToolCallEvent(tc) ==
    [type |-> "tool_call", tool |-> tc.name, content |-> "", is_error |-> FALSE]

ToolResultEventAsSuccess(tc, out) ==
    [type |-> "tool_result", tool |-> tc.name,
     content |-> IF out.err THEN "Error: " \o out.text ELSE out.text,
     is_error |-> FALSE]

ToolResultEvent(tc, out) ==
    [type |-> "tool_result", tool |-> tc.name,
     content |-> IF out.err THEN "Error: " \o out.text ELSE out.text,
     is_error |-> out.err]

ContentEvent(text) ==
    [type |-> "content", tool |-> "", content |-> text, is_error |-> FALSE]

\* `events = append(events, e)`: a new event goes to the end of the list
AppendEventInFront(evs, e) == << e >> \o evs

AppendEvent(evs, e) == Append(evs, e)

\* the events ChatWithEvents hands to its caller: `return nil, err` on an error,
\* `return events, nil` otherwise
ReturnedEvents(evs, failed) == IF failed THEN << >> ELSE evs

\* one thing that happened in a turn: the tools-disabled notice, a tool call
\* handed to the registry, its return (failed: ExecuteTool returned an error),
\* or the final text
Occurrence(what, tool, failed) == [what |-> what, tool |-> tool, failed |-> failed]

-----------------------------------------------------------------------------
(* The Agent *)

InitAgentWith(sc) ==
    /\ mu = NoOne
    /\ provider = [id |-> "openai", model |-> DefaultModelOf("openai")]
    /\ conversation = << >>
    /\ pc = [c \in Callers |-> "idle"]
    /\ op = [c \in Callers |-> "none"]
    /\ arg = [c \in Callers |-> ""]
    /\ cancelled = [c \in Callers |-> FALSE]
    /\ response = [c \in Callers |-> NoResponse]
    /\ toolCalls = [c \in Callers |-> << >>]
    /\ toolResults = [c \in Callers |-> << >>]
    /\ idx = [c \in Callers |-> 0]
    /\ events = [c \in Callers |-> << >>]
    /\ convAtStart = [c \in Callers |-> << >>]
    /\ callsInTurn = [c \in Callers |-> 0]
    /\ handlerLog = [c \in Callers |-> << >>]
    /\ occurred = [c \in Callers |-> << >>]
    /\ scenario = sc
    /\ reqTools = [c \in Callers |-> {}]

\* no caller ever uses the agent
AgentUnused == InitAgentWith([callers |-> {}, budget |-> 0, convLimit |-> 0])

\* a.mu.Lock() returns only when no one holds the mutex
TryLockNoWait(c) == TRUE

TryLock(c) == mu = NoOne

\* a caller enters Chat, SetModel, SetProvider or Reset and reaches a.mu.Lock()
Invoke(c, o, a) ==
    /\ pc[c] = "idle"
    /\ c \in scenario.callers
    /\ o = "chat" => Len(conversation) + 2 <= scenario.convLimit
    /\ pc' = [pc EXCEPT ![c] = "waiting"]
    /\ op' = [op EXCEPT ![c] = o]
    /\ arg' = [arg EXCEPT ![c] = a]
    /\ UNCHANGED <<mu, provider, conversation, cancelled, response, toolCalls,
                   toolResults, idx, events, convAtStart, callsInTurn, handlerLog, occurred,
                   scenario, reqTools>>

InvokeAny(c) ==
    \/ \E t \in UserTexts : Invoke(c, "chat", t)
    \/ \E m \in ModelIDs \cup {"m-unknown"} : Invoke(c, "set_model", m)
    \/ \E p \in ProviderIDs : Invoke(c, "set_provider", p)
    \/ Invoke(c, "reset", "")

\* GetProvider, CurrentModel, ListModels, ProviderName, CurrentProviderID and
\* Close dereference a.provider without a.mu.Lock(): the caller is inside the
\* accessor whoever holds the mutex
ReadProvider(c) ==
    /\ pc[c] = "idle"
    /\ c \in scenario.callers
    /\ pc' = [pc EXCEPT ![c] = "reading"]
    /\ op' = [op EXCEPT ![c] = "current_model"]
    /\ UNCHANGED <<mu, provider, conversation, arg, cancelled, response, toolCalls,
                   toolResults, idx, events, convAtStart, callsInTurn, handlerLog, occurred,
                   scenario, reqTools>>

\* the accessor returns what it read; it never held the mutex, so nothing is unlocked
ReadReturn(c) ==
    /\ pc[c] = "reading"
    /\ pc' = [pc EXCEPT ![c] = "idle"]
    /\ op' = [op EXCEPT ![c] = "none"]
    /\ UNCHANGED <<mu, provider, conversation, arg, cancelled, response, toolCalls,
                   toolResults, idx, events, convAtStart, callsInTurn, handlerLog, occurred,
                   scenario, reqTools>>

\* a.mu.Lock() of the operation succeeds
Acquire(c) ==
    /\ pc[c] = "waiting"
    /\ TryLock(c)
    /\ mu' = c
    /\ pc' = [pc EXCEPT ![c] = "locked"]
    /\ UNCHANGED <<provider, conversation, op, arg, cancelled, response, toolCalls,
                   toolResults, idx, events, convAtStart, callsInTurn, handlerLog, occurred,
                   scenario, reqTools>>

\* the ctx of a running Chat call is cancelled by its caller
Cancel(c) ==
    /\ op[c] = "chat"
    /\ pc[c] \in {"call", "tools", "handler", "continue"}
    /\ ~cancelled[c]
    /\ cancelled' = [cancelled EXCEPT ![c] = TRUE]
    /\ UNCHANGED <<mu, provider, conversation, pc, op, arg, response, toolCalls,
                   toolResults, idx, events, convAtStart, callsInTurn, handlerLog, occurred,
                   scenario, reqTools>>

\* req.Tools: the registry's tools, or nil when the model is known not to
\* support tools; st is the pair (supports, known)
RequestToolsAlways(st) == KnownTools

RequestTools(st) == IF st[2] /\ ~st[1] THEN {} ELSE KnownTools

\* ChatWithEvents up to the first provider call: append the user message,
\* look up the tool capability, start the event list
ChatAppendUser(c) ==
    /\ pc[c] = "locked" /\ op[c] = "chat"
    /\ conversation' = Append(conversation, UserMessage(arg[c]))
    /\ convAtStart' = [convAtStart EXCEPT ![c] = conversation]
    /\ LET st == SupportsToolsForModel(provider)
       IN IF st[2] /\ ~st[1]
          THEN /\ events' = [events EXCEPT ![c] =
                                 << ContentEvent("Tools disabled for model") >>]
               /\ occurred' = [occurred EXCEPT ![c] = << Occurrence("notice", "", FALSE) >>]
          ELSE /\ events' = [events EXCEPT ![c] = << >>]
               /\ occurred' = [occurred EXCEPT ![c] = << >>]
    /\ reqTools' = [reqTools EXCEPT ![c] = RequestTools(SupportsToolsForModel(provider))]
    /\ callsInTurn' = [callsInTurn EXCEPT ![c] = 0]
    /\ pc' = [pc EXCEPT ![c] = "call"]
    /\ UNCHANGED <<mu, provider, op, arg, cancelled, response, toolCalls,
                   toolResults, idx, handlerLog, scenario>>

\* what a provider call can return: an error once ctx is cancelled, else an
\* error or a response; the modelled provider stops asking for tools at the budget
ProviderOutcomes(c) ==
    IF cancelled[c]
    THEN {ErrResponse}
    ELSE {ErrResponse}
         \cup { r \in Responses : callsInTurn[c] + Len(r.calls) <= scenario.budget }

\* the loop head of ChatWithEvents after a provider call returned r
AfterResponse(c, r) ==
    /\ response' = [response EXCEPT ![c] = r]
    /\ conversation' = IF r.err THEN ConvOnError(conversation) ELSE conversation
    /\ UNCHANGED occurred
    /\ IF r.err
       THEN /\ pc' = [pc EXCEPT ![c] = "ret_err"]
            /\ UNCHANGED <<toolCalls, toolResults, idx, handlerLog>>
       ELSE IF Len(r.calls) > 0
       THEN /\ pc' = [pc EXCEPT ![c] = "tools"]
            /\ toolCalls' = [toolCalls EXCEPT ![c] = r.calls]
            /\ toolResults' = [toolResults EXCEPT ![c] =
                                  [k \in 1..Len(r.calls) |-> ZeroResult]]
            /\ idx' = [idx EXCEPT ![c] = 1]
            /\ handlerLog' = [handlerLog EXCEPT ![c] = << >>]
       ELSE /\ pc' = [pc EXCEPT ![c] = "final"]
            /\ UNCHANGED <<toolCalls, toolResults, idx, handlerLog>>

\* response, err := a.provider.Chat(ctx, req)
ChatCall(c) ==
    /\ pc[c] = "call"
    /\ \E r \in ProviderOutcomes(c) : AfterResponse(c, r)
    /\ UNCHANGED <<mu, provider, op, arg, cancelled, events,
                   convAtStart, callsInTurn, scenario, reqTools>>

\* executeToolCallsInternal: emit the tool_call event and enter the handler of tc_i
ExecStart(c) ==
    /\ pc[c] = "tools"
    /\ events' = [events EXCEPT ![c] = AppendEvent(@, ToolCallEvent(toolCalls[c][idx[c]]))]
    /\ occurred' = [occurred EXCEPT ![c] =
                       Append(@, Occurrence("call", toolCalls[c][idx[c]].name, FALSE))]
    /\ handlerLog' = [handlerLog EXCEPT ![c] = Append(@, <<"start", idx[c]>>)]
    /\ callsInTurn' = [callsInTurn EXCEPT ![c] = @ + 1]
    /\ pc' = [pc EXCEPT ![c] = "handler"]
    /\ UNCHANGED <<mu, provider, conversation, op, arg, cancelled, response,
                   toolCalls, toolResults, idx, convAtStart, scenario, reqTools>>

\* executeToolCallsInternal: the handler of tc_i returns; store results[i],
\* emit the tool_result event, go on with tc_(i+1) or leave the loop
ExecReturn(c) ==
    /\ pc[c] = "handler"
    /\ \E out \in ExecuteTool(toolCalls[c][idx[c]]) :
          /\ toolResults' = [toolResults EXCEPT ![c] =
                                StoreResult(@, idx[c], toolCalls[c][idx[c]], out)]
          /\ events' = [events EXCEPT ![c] =
                           AppendEvent(@, ToolResultEvent(toolCalls[c][idx[c]], out))]
          /\ occurred' = [occurred EXCEPT ![c] =
                             Append(@, Occurrence("result", toolCalls[c][idx[c]].name, out.err))]
    /\ handlerLog' = [handlerLog EXCEPT ![c] = Append(@, <<"return", idx[c]>>)]
    /\ IF idx[c] = Len(toolCalls[c])
       THEN pc' = [pc EXCEPT ![c] = "continue"] /\ UNCHANGED idx
       ELSE pc' = [pc EXCEPT ![c] = "tools"] /\ idx' = [idx EXCEPT ![c] = @ + 1]
    /\ UNCHANGED <<mu, provider, conversation, op, arg, cancelled, response,
                   toolCalls, convAtStart, callsInTurn, scenario, reqTools>>

\* continueWithToolResults: the type assertion, then ChatWithToolResults
ChatContinue(c) ==
    /\ pc[c] = "continue"
    /\ IF provider.id \notin ToolResultsProviders
       THEN AfterResponse(c, ErrResponse)
       ELSE \E r \in ProviderOutcomes(c) : AfterResponse(c, r)
    /\ UNCHANGED <<mu, provider, op, arg, cancelled, events,
                   convAtStart, callsInTurn, scenario, reqTools>>

\* ChatWithEvents after the loop: append the final assistant text, if any
ChatFinal(c) ==
    /\ pc[c] = "final"
    /\ IF response[c].content # ""
       THEN /\ events' = [events EXCEPT ![c] =
                              AppendEvent(@, ContentEvent(response[c].content))]
            /\ occurred' = [occurred EXCEPT ![c] = Append(@, Occurrence("final", "", FALSE))]
       ELSE UNCHANGED <<events, occurred>>
    /\ conversation' = conversation \o FinalMessages(response[c])
    /\ pc' = [pc EXCEPT ![c] = "ret_ok"]
    /\ UNCHANGED <<mu, provider, op, arg, cancelled, response, toolCalls,
                   toolResults, idx, convAtStart, callsInTurn, handlerLog, scenario, reqTools>>

\* Agent.SetModel under the mutex
SetModelBody(c) ==
    /\ pc[c] = "locked" /\ op[c] = "set_model"
    /\ IF ValidateModelID(arg[c], Models(provider.id))
       THEN /\ provider' = [provider EXCEPT !.model = arg[c]]
            /\ conversation' = << >>
            /\ pc' = [pc EXCEPT ![c] = "ret_ok"]
       ELSE /\ pc' = [pc EXCEPT ![c] = "ret_err"]
            /\ UNCHANGED <<provider, conversation>>
    /\ UNCHANGED <<mu, op, arg, cancelled, response, toolCalls, toolResults, idx,
                   events, convAtStart, callsInTurn, handlerLog, occurred, scenario, reqTools>>

\* Agent.SetProvider under the mutex; createProvider fails when no credential resolves
SetProviderBody(c) ==
    /\ pc[c] = "locked" /\ op[c] = "set_provider"
    /\ \E created \in BOOLEAN :
          /\ provider' = SwitchProvider(provider, arg[c], created)
          /\ IF created
             THEN /\ conversation' = << >>
                  /\ pc' = [pc EXCEPT ![c] = "ret_ok"]
             ELSE /\ pc' = [pc EXCEPT ![c] = "ret_err"]
                  /\ UNCHANGED conversation
    /\ UNCHANGED <<mu, op, arg, cancelled, response, toolCalls, toolResults, idx,
                   events, convAtStart, callsInTurn, handlerLog, occurred, scenario, reqTools>>

\* Agent.Reset under the mutex
ResetBody(c) ==
    /\ pc[c] = "locked" /\ op[c] = "reset"
    /\ conversation' = << >>
    /\ pc' = [pc EXCEPT ![c] = "ret_ok"]
    /\ UNCHANGED <<mu, provider, op, arg, cancelled, response, toolCalls,
                   toolResults, idx, events, convAtStart, callsInTurn, handlerLog, occurred,
                   scenario, reqTools>>

\* the operation returns: the deferred a.mu.Unlock() runs, the locals are gone
Return(c) ==
    /\ pc[c] \in {"ret_ok", "ret_err"}
    /\ mu' = NoOne
    /\ pc' = [pc EXCEPT ![c] = "idle"]
    /\ op' = [op EXCEPT ![c] = "none"]
    /\ arg' = [arg EXCEPT ![c] = ""]
    /\ cancelled' = [cancelled EXCEPT ![c] = FALSE]
    /\ response' = [response EXCEPT ![c] = NoResponse]
    /\ toolCalls' = [toolCalls EXCEPT ![c] = << >>]
    /\ toolResults' = [toolResults EXCEPT ![c] = << >>]
    /\ idx' = [idx EXCEPT ![c] = 0]
    /\ events' = [events EXCEPT ![c] = << >>]
    /\ convAtStart' = [convAtStart EXCEPT ![c] = << >>]
    /\ callsInTurn' = [callsInTurn EXCEPT ![c] = 0]
    /\ handlerLog' = [handlerLog EXCEPT ![c] = << >>]
    /\ occurred' = [occurred EXCEPT ![c] = << >>]
    /\ reqTools' = [reqTools EXCEPT ![c] = {}]
    /\ UNCHANGED <<provider, conversation, scenario>>

AgentStep(c) ==
        \/ InvokeAny(c)
        \/ Acquire(c)
        \/ Cancel(c)
        \/ ChatAppendUser(c)
        \/ ChatCall(c)
        \/ ExecStart(c)
        \/ ExecReturn(c)
        \/ ChatContinue(c)
        \/ ChatFinal(c)
        \/ SetModelBody(c)
        \/ SetProviderBody(c)
        \/ ResetBody(c)
        \/ Return(c)
        \/ ReadProvider(c)
        \/ ReadReturn(c)

-----------------------------------------------------------------------------
(* Transaction intent and policy (internal/tx/intent.go) *)

\* a *big.Int that may be nil
NoInt == [set |-> FALSE, v |-> 0]
SomeInt(n) == [set |-> TRUE, v |-> n]

\* addresses that pass common.IsHexAddress
HexAddrs == {"0xA", "0xB", "0xC", "0xT"}

\* the loop `for _, a := range list { if a == to ... }` of Validate
Contains(list, a) == \E k \in 1..Len(list) : list[k] = a

VErrValueMissing == "value missing"
VErrDenied == "destination denied by policy"
VErrNotAllowed == "destination not in allowlist"
VErrOverLimit == "value exceeds max per tx limit"

\* tx.Validate: "ok" or the message of the error it returns
ValidateLimitInclusive(intent, policy) ==
    IF ~intent.value.set THEN VErrValueMissing
    ELSE IF Len(policy.deny) > 0 /\ Contains(policy.deny, intent.to) THEN VErrDenied
    ELSE IF Len(policy.allow) > 0 /\ ~Contains(policy.allow, intent.to) THEN VErrNotAllowed
    ELSE IF policy.max.set /\ intent.value.v >= policy.max.v THEN VErrOverLimit
    ELSE "ok"

Validate(intent, policy) ==
    IF ~intent.value.set THEN VErrValueMissing
    ELSE IF Len(policy.deny) > 0 /\ Contains(policy.deny, intent.to) THEN VErrDenied
    ELSE IF Len(policy.allow) > 0 /\ ~Contains(policy.allow, intent.to) THEN VErrNotAllowed
    ELSE IF policy.max.set /\ intent.value.v > policy.max.v THEN VErrOverLimit
    ELSE "ok"

\* the intents and policies drawn for Validate
VAddrs == {"0xA", "0xB", "0xC"}
VValues == {NoInt} \cup { SomeInt(n) : n \in 0..MaxWei }
VLists == { << >> } \cup { <<a>> : a \in VAddrs } \cup { <<a, b>> : a, b \in VAddrs }

ValidateUnused == vIntent = "none" /\ vPolicy = "none" /\ vResult = "none"

InitValidateInputs ==
    /\ vIntent \in [to : VAddrs, value : VValues]
    /\ vPolicy \in [max : VValues, allow : VLists, deny : VLists]
    /\ vResult = "none"

\* a caller applies Validate to the drawn intent and policy
ApplyValidate ==
    /\ vResult = "none"
    /\ vResult' = Validate(vIntent, vPolicy)
    /\ UNCHANGED <<vIntent, vPolicy>>

-----------------------------------------------------------------------------
(* Signing handlers of the tool registry (internal/agent/tools.go) *)

SigningTools == {"send_native", "send_token", "approve_token"}

\* parseEthToWei / decimalToWei on the amounts of the model, in units of 10^17 wei:
\* NoInt when big.Rat.SetString rejects the text
ParseAmount(text) ==
    IF text = "0" THEN SomeInt(0)
    ELSE IF text = "0.5" THEN SomeInt(5)
    ELSE IF text = "1" THEN SomeInt(10)
    ELSE IF text = "2" THEN SomeInt(20)
    ELSE NoInt

\* the hex entries of a comma-separated address list, as loadPolicy keeps them
RECURSIVE HexOnly(_)
HexOnly(parts) ==
    IF parts = << >> THEN << >>
    ELSE (IF Head(parts) \in HexAddrs THEN << Head(parts) >> ELSE << >>)
         \o HexOnly(Tail(parts))

\* loadPolicy: CLIFI_MAX_TX_ETH, CLIFI_ALLOW_TO, CLIFI_DENY_TO
LoadPolicy(env) ==
    [max |-> IF env.max # "" THEN ParseAmount(env.max) ELSE NoInt,
     allow |-> HexOnly(env.allow),
     deny |-> HexOnly(env.deny)]

\* the environments and keystores of the model
Envs ==
    [max : {"", "1"},
     allow : { << >>, <<"0xA">> },
     deny : { << >>, <<"junk", "0xB">>, <<"0xT">> },
     accounts : { << [addr |-> "0xA", password |-> "pw"] >>,
                  << [addr |-> "0xA", password |-> ""] >> }]

\* chains of DefaultChains the model uses
KnownChains == {"sepolia"}

\* the raw JSON inputs of the model; confirm and password may be absent
Inputs ==
    [tool : SigningTools,
     to : {"0xA", "0xB", "nothex"},
     token : {"0xT"},
     amount : {"", "0", "1", "2", "abc"},
     chain : {"sepolia", "mars"},
     from : {"", "0xC"},
     confirm : {"absent", "false", "true"},
     password : {"absent", "", "pw"}]

\* parseToolInput into the input struct: an absent bool is false, an absent string ""
Params(in) ==
    [in EXCEPT !.confirm = (in.confirm = "true"),
               !.password = IF in.password = "absent" THEN "" ELSE in.password]

\* the checks of a handler before it builds the intent, in the order of the code
\* (handleSendNative parses the amount before prepareTxFrom, the token handlers
\* after it): "ok" or the error returned
InputError(p, accounts) ==
    LET amt == ParseAmount(p.amount)
        prepare ==
            IF p.chain = "" THEN "chain is required"
            ELSE IF Len(accounts) = 0 THEN "no wallets found in keystore"
            ELSE IF p.from # "" /\ p.from \notin HexAddrs THEN "invalid from address"
            ELSE IF p.chain \notin KnownChains THEN "unknown chain"
            ELSE "ok"
        amount ==
            IF ~amt.set THEN "invalid amount"
            ELSE IF amt.v <= 0 THEN "amount must be greater than zero"
            ELSE "ok"
    IN  IF p.to \notin HexAddrs THEN "invalid address"
        ELSE IF p.tool # "send_native" /\ p.token \notin HexAddrs THEN "invalid token address"
        ELSE IF p.amount = "" THEN "amount is required"
        ELSE IF p.tool = "send_native"
             THEN (IF amount # "ok" THEN amount ELSE prepare)
             ELSE (IF prepare # "ok" THEN prepare ELSE amount)

\* fromAddr of prepareTxFrom: the first keystore account unless `from` is given
FromAddr(p, accounts) == IF p.from # "" THEN p.from ELSE accounts[1].addr

\* the tx.Intent a handler builds: a native send goes to the recipient with the
\* value; a token transfer or approval goes to the token contract with value 0
IntentOf(p, accounts) ==
    IF p.tool = "send_native"
    THEN [to |-> p.to, value |-> ParseAmount(p.amount)]
    ELSE [to |-> p.token, value |-> SomeInt(0)]

\* the stages of a signing handler after its input checks, in the order of the code
StagesBuildFirst(tool) == <<"input", "build", "policy", "gate", "sign", "send">>

Stages(tool) == <<"input", "policy", "build", "gate", "sign", "send">>

\* the confirmation gate: preview only, password missing, or go on to sign
ConfirmGatePasswordOnly(p) ==
    IF p.password = "" THEN "password required to sign" ELSE "proceed"

ConfirmGate(p) ==
    IF ~p.confirm THEN "preview"
    ELSE IF p.password = "" THEN "password required to sign"
    ELSE "proceed"

\* KeystoreManager.GetSigner: the account must exist and the password decrypt its key
GetSigner(accounts, addr, password) ==
    IF ~\E k \in 1..Len(accounts) : accounts[k].addr = addr THEN "account not found"
    ELSE IF ~\E k \in 1..Len(accounts) :
                accounts[k].addr = addr /\ accounts[k].password = password
         THEN "failed to unlock account"
    ELSE "ok"

\* no invocation is running
NoCall == [tool |-> "none", to |-> "", token |-> "", amount |-> "", chain |-> "",
           from |-> "", confirm |-> "absent", password |-> "absent"]

\* key is the state of the signer's private key: "none" while no signer was
\* made, "unlocked" from GetSigner on, "zeroed" after KeystoreSigner.Lock
NoEffects ==
    [built |-> FALSE, preview |-> FALSE, signed |-> FALSE, broadcast |-> FALSE,
     key |-> "none"]

HandlerUnused ==
    /\ henv = "none" /\ hcall = NoCall /\ hstage = 0 /\ hres = "none"
    /\ hfx = NoEffects /\ hseen = FALSE

InitHandlerEnv ==
    /\ henv \in Envs
    /\ hcall = NoCall /\ hstage = 0 /\ hres = "none"
    /\ hfx = NoEffects /\ hseen = FALSE

HStage == IF hstage > 0 THEN Stages(hcall.tool)[hstage] ELSE "none"

\* the handler returns `res`
HFinish(res) == hres' = res /\ hstage' = 0

HNextStage == hstage' = hstage + 1 /\ UNCHANGED hres

\* ExecuteTool dispatches one invocation to its handler
HInvoke(in) ==
    /\ hstage = 0 /\ hcall = NoCall
    /\ hcall' = in
    /\ hstage' = 1
    /\ hres' = "none"
    /\ hfx' = NoEffects
    /\ UNCHANGED <<hseen, henv>>

\* parse and check the input, resolve the sender and the chain
HInput ==
    /\ HStage = "input"
    /\ LET e == InputError(Params(hcall), henv.accounts)
       IN IF e = "ok" THEN HNextStage ELSE HFinish(e)
    /\ UNCHANGED <<hseen, henv, hcall, hfx>>

\* tx.Validate(intent, loadPolicy())
HPolicy ==
    /\ HStage = "policy"
    /\ LET v == Validate(IntentOf(Params(hcall), henv.accounts), LoadPolicy(henv))
       IN IF v = "ok" THEN HNextStage ELSE HFinish(v)
    /\ UNCHANGED <<hseen, henv, hcall, hfx>>

\* tx.BuildUnsignedTx and the preview text; the RPCs behind it can fail
HBuild ==
    /\ HStage = "build"
    /\ \/ /\ hfx' = [hfx EXCEPT !.built = TRUE, !.preview = TRUE]
          /\ HNextStage
       \/ /\ HFinish("rpc error")
          /\ UNCHANGED hfx
    /\ UNCHANGED <<hseen, henv, hcall>>

\* the confirmation gate
HGate ==
    /\ HStage = "gate"
    /\ LET g == ConfirmGate(Params(hcall))
       IN /\ IF g = "proceed" THEN HNextStage ELSE HFinish(g)
          /\ hseen' = (hseen \/ g = "preview")
    /\ UNCHANGED <<henv, hcall, hfx>>

\* signAndSendTx: GetSigner with the password, then SignTransaction
HSign ==
    /\ HStage = "sign"
    /\ LET p == Params(hcall)
           s == GetSigner(henv.accounts, FromAddr(p, henv.accounts), p.password)
       IN IF s = "ok"
          THEN hfx' = [hfx EXCEPT !.signed = TRUE, !.key = "unlocked"] /\ HNextStage
          ELSE HFinish("failed to unlock signer") /\ UNCHANGED hfx
    /\ UNCHANGED <<hseen, henv, hcall>>

\* signAndSendTx: chainClient.SendTransaction, which can fail; then the result
HSend ==
    /\ HStage = "send"
    /\ \/ /\ hfx' = [hfx EXCEPT !.broadcast = TRUE]
          /\ HFinish("broadcasted")
       \/ /\ HFinish("failed to send tx")
          /\ UNCHANGED hfx
    /\ UNCHANGED <<hseen, henv, hcall>>

\* the caller has taken the result; the invocation's locals are gone
HReturn ==
    /\ hstage = 0 /\ hcall # NoCall
    /\ hcall' = NoCall /\ hres' = "none" /\ hfx' = NoEffects
    /\ UNCHANGED <<hseen, henv, hstage>>

HandlerStep ==
    \/ hstage = 0 /\ hcall = NoCall /\ \E in \in Inputs : HInvoke(in)
    \/ HInput
    \/ HPolicy
    \/ HBuild
    \/ HGate
    \/ HSign
    \/ HSend
    \/ HReturn

-----------------------------------------------------------------------------
(* KeystoreSigner (internal/wallet/keystore.go) *)

Threads == {"t1", "t2", "t3"}

SignOps == {"sign_tx", "sign_message", "sign_typed_data"}

\* the signer GetSigner returns: key set, its scalar D the secret
UnlockedKey == [ptr |-> "key", d |-> "secret"]

\* what Lock leaves of a non-nil key: D overwritten with zero, the reference dropped
LockedKeyReferenceKept(k) == [ptr |-> k.ptr, d |-> "zero"]

LockedKey(k) == [ptr |-> "nil", d |-> "zero"]

\* sync.RWMutex: RLock waits for the writer, Lock for the writer and all readers
CanRLock == srw.writer = NoOne
CanLock == srw.writer = NoOne /\ srw.readers = {}

SignerUnused ==
    /\ skey = UnlockedKey
    /\ srw = [writer |-> NoOne, readers |-> {}]
    /\ spc = [t \in Threads |-> "off"]
    /\ sop = [t \in Threads |-> "none"]
    /\ sres = [t \in Threads |-> "none"]
    /\ safterLock = [t \in Threads |-> FALSE]
    /\ slockReturned = FALSE

InitSignerThreads ==
    /\ skey = UnlockedKey
    /\ srw = [writer |-> NoOne, readers |-> {}]
    /\ spc = [t \in Threads |-> "idle"]
    /\ sop = [t \in Threads |-> "none"]
    /\ sres = [t \in Threads |-> "none"]
    /\ safterLock = [t \in Threads |-> FALSE]
    /\ slockReturned = FALSE

\* a thread calls SignTransaction, SignMessage, SignTypedData or Lock
SInvoke(t, o) ==
    /\ spc[t] = "idle"
    /\ spc' = [spc EXCEPT ![t] = "waiting"]
    /\ sop' = [sop EXCEPT ![t] = o]
    /\ sres' = [sres EXCEPT ![t] = "none"]
    /\ safterLock' = [safterLock EXCEPT ![t] = slockReturned]
    /\ UNCHANGED <<skey, srw, slockReturned>>

\* ks.mu.RLock() of a sign operation
SRLock(t) ==
    /\ spc[t] = "waiting" /\ sop[t] \in SignOps
    /\ CanRLock
    /\ srw' = [srw EXCEPT !.readers = @ \cup {t}]
    /\ spc' = [spc EXCEPT ![t] = "check"]
    /\ UNCHANGED <<skey, sop, sres, safterLock, slockReturned>>

\* `if ks.key == nil { return nil, ErrAccountLocked }`
SCheck(t) ==
    /\ spc[t] = "check"
    /\ IF skey.ptr = "nil"
       THEN /\ sres' = [sres EXCEPT ![t] = "AccountLocked"]
            /\ spc' = [spc EXCEPT ![t] = "ret"]
       ELSE /\ spc' = [spc EXCEPT ![t] = "signing"]
            /\ UNCHANGED sres
    /\ UNCHANGED <<skey, srw, sop, safterLock, slockReturned>>

\* types.SignTx / crypto.Sign with ks.key: the signature is made with the scalar
\* the key holds at that moment
SSign(t) ==
    /\ spc[t] = "signing"
    /\ sres' = [sres EXCEPT ![t] = IF skey.d = "secret" THEN "signed" ELSE "signed-with-zero"]
    /\ spc' = [spc EXCEPT ![t] = "ret"]
    /\ UNCHANGED <<skey, srw, sop, safterLock, slockReturned>>

\* ks.mu.Lock() of Lock
SWLock(t) ==
    /\ spc[t] = "waiting" /\ sop[t] = "lock"
    /\ CanLock
    /\ srw' = [srw EXCEPT !.writer = t]
    /\ spc' = [spc EXCEPT ![t] = "zero"]
    /\ UNCHANGED <<skey, sop, sres, safterLock, slockReturned>>

\* the body of Lock: nothing to do when the key is nil already
SLockBody(t) ==
    /\ spc[t] = "zero"
    /\ skey' = IF skey.ptr # "nil" THEN LockedKey(skey) ELSE skey
    /\ sres' = [sres EXCEPT ![t] = "locked"]
    /\ spc' = [spc EXCEPT ![t] = "ret"]
    /\ UNCHANGED <<srw, sop, safterLock, slockReturned>>

\* the call returns; its deferred RUnlock / Unlock runs
SReturn(t) ==
    /\ spc[t] = "ret"
    /\ srw' = IF sop[t] = "lock" THEN [srw EXCEPT !.writer = NoOne]
              ELSE [srw EXCEPT !.readers = @ \ {t}]
    /\ slockReturned' = (slockReturned \/ sop[t] = "lock")
    /\ spc' = [spc EXCEPT ![t] = "idle"]
    /\ UNCHANGED <<skey, sop, sres, safterLock>>

SignerStep(t) ==
    \/ \E o \in SignOps \cup {"lock"} : SInvoke(t, o)
    \/ SRLock(t)
    \/ SCheck(t)
    \/ SSign(t)
    \/ SWLock(t)
    \/ SLockBody(t)
    \/ SReturn(t)

-----------------------------------------------------------------------------
(* chain.Client, the pool of RPC connections (internal/chain/client.go) *)

ChainNames == {"ethereum", "devnet"}

NoConfig == [ChainID |-> 0, RPCURLs |-> <<>>, known |-> FALSE]

ChainConfig(id, urls) == [ChainID |-> id, RPCURLs |-> urls, known |-> TRUE]

\* NewClient starts from DefaultChains(); "devnet" stands for a name it does not have
DefaultChains ==
    [n \in ChainNames |->
        IF n = "ethereum" THEN ChainConfig(1, <<"u1", "u2">>) ELSE NoConfig]

\* the configurations callers pass to AddChain
AddableConfigs ==
    {ChainConfig(1, <<"u1", "u2">>), ChainConfig(5, <<"u2">>), ChainConfig(5, <<>>)}

NoClient == [url |-> "", chainID |-> 0, open |-> FALSE]

\* what one attempt on one URL can meet: DialContext fails, ChainID fails, or
\* the node answers with some chain id
RPCOutcomes ==
    {[dial |-> FALSE, query |-> FALSE, chainID |-> 0],
     [dial |-> TRUE, query |-> FALSE, chainID |-> 0],
     [dial |-> TRUE, query |-> TRUE, chainID |-> 1],
     [dial |-> TRUE, query |-> TRUE, chainID |-> 5]}

ChainOps ==
    [op : {"get_client"}, name : ChainNames, config : {NoConfig}]
    \cup [op : {"add_chain"}, name : ChainNames, config : AddableConfigs]
    \cup [op : {"close"}, name : {""}, config : {NoConfig}]

NoChainOp == [op |-> "none", name |-> "", config |-> NoConfig]

NoChainResult ==
    [client |-> NoClient, config |-> NoConfig, err |-> "none", last |-> "none", chain |-> ""]

\* `chainID.Cmp(config.ChainID) != 0`
ChainIDMismatch(reported, declared) == reported # declared

\* `if client, exists := c.clients[chainName]; exists`
CachedNever(cache, n) == FALSE

Cached(cache, n) == cache[n].open

\* the loop over config.RPCURLs ends when every URL has been tried
LoopDoneOnError(i, urls, lastErr) == i > Len(urls) \/ lastErr # "none"

LoopDone(i, urls, lastErr) == i > Len(urls)

\* what the text of the error getClient returns names: the chain (the format
\* string has no verb for a URL) and the last error it wraps
ErrorNames(res) == IF res.err = "none" THEN {} ELSE {res.chain, res.last}

ChainUnused ==
    /\ chains = DefaultChains
    /\ clients = [n \in ChainNames |-> NoClient]
    /\ cmu = NoOne
    /\ cpc = [k \in Callers |-> "off"]
    /\ cop = [k \in Callers |-> NoChainOp]
    /\ curl = [k \in Callers |-> 0]
    /\ clastErr = [k \in Callers |-> "none"]
    /\ cres = [k \in Callers |-> NoChainResult]
    /\ cdials = [n \in ChainNames |-> 0]

InitChainClient ==
    /\ chains = DefaultChains
    /\ clients = [n \in ChainNames |-> NoClient]
    /\ cmu = NoOne
    /\ cpc = [k \in Callers |-> "idle"]
    /\ cop = [k \in Callers |-> NoChainOp]
    /\ curl = [k \in Callers |-> 0]
    /\ clastErr = [k \in Callers |-> "none"]
    /\ cres = [k \in Callers |-> NoChainResult]
    /\ cdials = [n \in ChainNames |-> 0]

CInvoke(k, o) ==
    /\ cpc[k] = "idle"
    /\ cpc' = [cpc EXCEPT ![k] = "waiting"]
    /\ cop' = [cop EXCEPT ![k] = o]
    /\ cres' = [cres EXCEPT ![k] = NoChainResult]
    /\ curl' = [curl EXCEPT ![k] = 0]
    /\ clastErr' = [clastErr EXCEPT ![k] = "none"]
    /\ UNCHANGED <<chains, clients, cmu, cdials>>

\* c.mu.Lock() at the top of getClient, AddChain and Close
CAcquire(k) ==
    /\ cpc[k] = "waiting"
    /\ cmu = NoOne
    /\ cmu' = k
    /\ cpc' = [cpc EXCEPT ![k] = "locked"]
    /\ UNCHANGED <<chains, clients, cop, curl, clastErr, cres, cdials>>

CFinish(k, res) ==
    /\ cres' = [cres EXCEPT ![k] = res]
    /\ cpc' = [cpc EXCEPT ![k] = "ret"]

\* getClient up to the loop: unknown chain, or the cached client, or start dialing
GetLookup(k) ==
    /\ cpc[k] = "locked" /\ cop[k].op = "get_client"
    /\ LET n == cop[k].name IN
       IF ~chains[n].known
       THEN CFinish(k, [NoChainResult EXCEPT !.err = "unknown chain", !.chain = n])
            /\ UNCHANGED curl
       ELSE IF Cached(clients, n)
       THEN CFinish(k, [NoChainResult EXCEPT !.client = clients[n], !.config = chains[n]])
            /\ UNCHANGED curl
       ELSE /\ cpc' = [cpc EXCEPT ![k] = "dial"]
            /\ curl' = [curl EXCEPT ![k] = 1]
            /\ UNCHANGED cres
    /\ UNCHANGED <<chains, clients, cmu, cop, clastErr, cdials>>

\* one iteration of `for _, rpcURL := range config.RPCURLs`, or the return after it
GetTry(k, out) ==
    /\ cpc[k] = "dial"
    /\ LET n == cop[k].name
           config == chains[n]
       IN
       IF LoopDone(curl[k], config.RPCURLs, clastErr[k])
       THEN /\ CFinish(k, [NoChainResult EXCEPT !.err = "failed to connect to",
                                                  !.chain = n, !.last = clastErr[k]])
            /\ UNCHANGED <<clients, curl, clastErr, cdials>>
       ELSE IF ~out.dial
       THEN /\ clastErr' = [clastErr EXCEPT ![k] = "dial error"]
            /\ curl' = [curl EXCEPT ![k] = @ + 1]
            /\ UNCHANGED <<clients, cpc, cres, cdials>>
       ELSE IF ~out.query
       THEN /\ clastErr' = [clastErr EXCEPT ![k] = "chain id query error"]
            /\ curl' = [curl EXCEPT ![k] = @ + 1]
            /\ UNCHANGED <<clients, cpc, cres, cdials>>
       ELSE IF ChainIDMismatch(out.chainID, config.ChainID)
       THEN /\ clastErr' = [clastErr EXCEPT ![k] = "chain ID mismatch"]
            /\ curl' = [curl EXCEPT ![k] = @ + 1]
            /\ UNCHANGED <<clients, cpc, cres, cdials>>
       ELSE LET client == [url |-> config.RPCURLs[curl[k]],
                           chainID |-> out.chainID, open |-> TRUE]
            IN /\ clients' = [clients EXCEPT ![n] = client]
               /\ cdials' = [cdials EXCEPT ![n] = @ + 1]
               /\ CFinish(k, [NoChainResult EXCEPT !.client = client, !.config = config])
               /\ UNCHANGED <<curl, clastErr>>
    /\ UNCHANGED <<chains, cmu, cop>>

\* AddChain: `c.chains[name] = config`, the connection cache is left as it is
AddChainBody(k) ==
    /\ cpc[k] = "locked" /\ cop[k].op = "add_chain"
    /\ chains' = [chains EXCEPT ![cop[k].name] = cop[k].config]
    /\ CFinish(k, NoChainResult)
    /\ UNCHANGED <<clients, cmu, cop, curl, clastErr, cdials>>

\* Close: every cached client is closed and the cache replaced by an empty map
CloseBody(k) ==
    /\ cpc[k] = "locked" /\ cop[k].op = "close"
    /\ clients' = [n \in ChainNames |-> NoClient]
    /\ cdials' = [n \in ChainNames |-> 0]
    /\ CFinish(k, NoChainResult)
    /\ UNCHANGED <<chains, cmu, cop, curl, clastErr>>

\* the deferred c.mu.Unlock() and the return
CReturn(k) ==
    /\ cpc[k] = "ret"
    /\ cmu' = NoOne
    /\ cpc' = [cpc EXCEPT ![k] = "idle"]
    /\ UNCHANGED <<chains, clients, cop, curl, clastErr, cres, cdials>>

ChainStep(k) ==
    \/ \E o \in ChainOps : CInvoke(k, o)
    \/ CAcquire(k)
    \/ GetLookup(k)
    \/ \E out \in RPCOutcomes : GetTry(k, out)
    \/ AddChainBody(k)
    \/ CloseBody(k)
    \/ CReturn(k)

-----------------------------------------------------------------------------
(* Credential resolution of auth.Manager (internal/auth/auth.go) *)

AuthIDs == {"openai", "copilot"}

\* llm.EnvVarForProvider
EnvVarForProvider(id) == IF id = "openai" THEN "OPENAI_API_KEY" ELSE "GITHUB_TOKEN"

\* the environment variables of the model; "" is os.Getenv of an unset or empty one
EnvVars == {"OPENAI_API_KEY", "GITHUB_TOKEN", "ALT_KEY"}

\* values viper can hold under llm.providers.<id>.api_key
ConfigKeys == {"", "cfg-key", "{env:ALT_KEY}"}

NoCred == [type |-> "none", key |-> "", access_token |-> "", refresh_token |-> ""]

\* the credentials SetAPIKey and SetOAuthToken store
Credentials ==
    [type : {"api"}, key : {"sk-1", ""}, access_token : {""}, refresh_token : {""}]
    \cup [type : {"oauth"}, key : {""}, access_token : {"tok"}, refresh_token : {"", "ref"}]

\* resolveEnvSubstitution: {env:VAR} is replaced by the value of VAR
ResolveEnvSubstitution(value, env) ==
    IF value = "{env:ALT_KEY}" THEN env["ALT_KEY"] ELSE value

NoKey == [ok |-> FALSE, key |-> ""]

\* Manager.GetAPIKey: environment variable, then config file, then auth.json
GetAPIKeyStoreFirst(id, env, cfg, providers) ==
    IF providers[id] # NoCred /\ providers[id].key # ""
    THEN [ok |-> TRUE, key |-> providers[id].key]
    ELSE IF env[EnvVarForProvider(id)] # ""
    THEN [ok |-> TRUE, key |-> env[EnvVarForProvider(id)]]
    ELSE IF cfg[id] # "" /\ ResolveEnvSubstitution(cfg[id], env) # ""
    THEN [ok |-> TRUE, key |-> ResolveEnvSubstitution(cfg[id], env)]
    ELSE NoKey

GetAPIKey(id, env, cfg, providers) ==
    IF env[EnvVarForProvider(id)] # ""
    THEN [ok |-> TRUE, key |-> env[EnvVarForProvider(id)]]
    ELSE IF cfg[id] # "" /\ ResolveEnvSubstitution(cfg[id], env) # ""
    THEN [ok |-> TRUE, key |-> ResolveEnvSubstitution(cfg[id], env)]
    ELSE IF providers[id] # NoCred /\ providers[id].key # ""
    THEN [ok |-> TRUE, key |-> providers[id].key]
    ELSE NoKey

\* Manager.HasCredential
HasCredential(id, env, cfg, providers) ==
    \/ env[EnvVarForProvider(id)] # ""
    \/ cfg[id] # "" /\ ResolveEnvSubstitution(cfg[id], env) # ""
    \/ providers[id] # NoCred

NoQuery == [id |-> "none", got |-> NoKey, has |-> FALSE]

AuthUnused ==
    /\ aenv = [v \in EnvVars |-> ""]
    /\ acfg = [id \in AuthIDs |-> ""]
    /\ aproviders = [id \in AuthIDs |-> NoCred]
    /\ aquery = NoQuery

\* a fresh data directory; the config file is whatever the user wrote
InitAuthManager ==
    /\ aenv = [v \in EnvVars |-> ""]
    /\ acfg \in [AuthIDs -> ConfigKeys]
    /\ aproviders = [id \in AuthIDs |-> NoCred]
    /\ aquery = NoQuery

\* the user sets (to a non-empty or an empty value) or unsets a variable
ASetEnv(v, val) ==
    /\ aenv' = [aenv EXCEPT ![v] = val]
    /\ aquery' = NoQuery
    /\ UNCHANGED <<acfg, aproviders>>

\* Manager.SetAPIKey / SetOAuthToken (cred in Credentials), RemoveCredential (NoCred)
AStore(id, cred) ==
    /\ aproviders' = [aproviders EXCEPT ![id] = cred]
    /\ aquery' = NoQuery
    /\ UNCHANGED <<aenv, acfg>>

\* a caller asks GetAPIKey(id) and HasCredential(id)
AQuery(id) ==
    /\ aquery' = [id |-> id, got |-> GetAPIKey(id, aenv, acfg, aproviders),
                  has |-> HasCredential(id, aenv, acfg, aproviders)]
    /\ UNCHANGED <<aenv, acfg, aproviders>>

AuthStep ==
    \/ \E v \in EnvVars, val \in {"", "env-key"} : ASetEnv(v, val)
    \/ \E id \in AuthIDs, cred \in Credentials : AStore(id, cred)
    \/ \E id \in AuthIDs : AStore(id, NoCred)
    \/ \E id \in AuthIDs : AQuery(id)

-----------------------------------------------------------------------------
(* The credential store and its file (internal/auth/store.go) *)

\* filePerms, the mode 0600 in decimal
filePerms == 384

\* the credentials the model stores: an API key, an OAuth token pair
StoreCreds == { c \in Credentials : c.key = "sk-1" \/ c.refresh_token = "ref" }

DefaultProviders == {"anthropic", "openai"}

\* the AuthData NewStore starts from
EmptyAuthData == [providers |-> [id \in AuthIDs |-> NoCred], default |-> "anthropic"]

CredFields == {"type", "key", "access_token", "refresh_token"}

\* json.MarshalIndent of a Credential: type always, the other fields omitempty
SerializeCredentialNoRefresh(cred) ==
    [f \in {"type"} \cup {g \in CredFields \ {"refresh_token"} : cred[g] # ""} |-> cred[f]]

SerializeCredential(cred) ==
    [f \in {"type"} \cup {g \in CredFields : cred[g] # ""} |-> cred[f]]

\* json.MarshalIndent of AuthData: the providers map holds the stored ids only
Serialize(data) ==
    [version |-> 1,
     providers |-> [id \in {i \in AuthIDs : data.providers[i] # NoCred} |->
                       SerializeCredential(data.providers[id])],
     default_provider |-> data.default]

\* json.Unmarshal into AuthData: a field the object lacks keeps its zero value
Parse(json) ==
    [providers |->
        [id \in AuthIDs |->
            IF id \in DOMAIN json.providers
            THEN [f \in CredFields |->
                     IF f \in DOMAIN json.providers[id] THEN json.providers[id][f] ELSE ""]
            ELSE NoCred],
     default |-> json.default_provider]

\* what a missing or a truncated file holds: nothing that parses
NoContent == [version |-> 0, providers |-> [id \in {} |-> NoCred], default_provider |-> ""]

Absent == [exists |-> FALSE, complete |-> FALSE, mode |-> 0, content |-> NoContent]

\* os.WriteFile(path, data, perm): creates the file with perm, or truncates an
\* existing one and keeps its mode; `complete` is false when the write stopped midway
WriteFile(disk, path, content, complete) ==
    [disk EXCEPT ![path] =
        [exists |-> TRUE, complete |-> complete,
         mode |-> IF disk[path].exists THEN disk[path].mode ELSE filePerms,
         content |-> IF complete THEN content ELSE NoContent]]

\* the path save writes the serialization to before the rename
WriteTargetCanonical == "file"

WriteTarget == "tmp"

\* Store.load as NewStore uses it: a missing file is the empty state
Load(file) == IF file.exists THEN Parse(file.content) ELSE EmptyAuthData

\* Store.GetCredential
GetCredential(id, data) ==
    IF data.providers[id] # NoCred THEN [ok |-> TRUE, cred |-> data.providers[id]]
    ELSE [ok |-> FALSE, cred |-> NoCred]

NoWrite == [kind |-> "none", id |-> "", cred |-> NoCred]

StoreWrites ==
    [kind : {"set"}, id : AuthIDs, cred : StoreCreds]
    \cup [kind : {"remove"}, id : AuthIDs, cred : {NoCred}]
    \cup [kind : {"set_default"}, id : DefaultProviders, cred : {NoCred}]

\* what the successful writes since the store was opened have left, per provider
Clean(data) == [failed |-> FALSE, expect |-> data.providers]
Failed == [failed |-> TRUE, expect |-> EmptyAuthData.providers]

StoreUnused ==
    /\ sdata = EmptyAuthData
    /\ sdisk = [file |-> Absent, tmp |-> Absent]
    /\ swrite = NoWrite
    /\ sstep = "off"
    /\ shist = Clean(EmptyAuthData)

InitStoreDir ==
    /\ sdata = EmptyAuthData
    /\ sdisk = [file |-> Absent, tmp |-> Absent]
    /\ swrite = NoWrite
    /\ sstep = "idle"
    /\ shist = Clean(EmptyAuthData)

\* SetCredential, RemoveCredential, SetDefaultProvider up to the call of save:
\* the change is made in memory first
SBegin(w) ==
    /\ sstep = "idle"
    /\ sdata' = IF w.kind = "set_default" THEN [sdata EXCEPT !.default = w.id]
                ELSE [sdata EXCEPT !.providers[w.id] = w.cred]
    /\ swrite' = w
    /\ sstep' = "write"
    /\ UNCHANGED <<sdisk, shist>>

\* save: os.WriteFile of the serialization; it can fail before or while writing
SWriteFile ==
    /\ sstep = "write"
    /\ \/ /\ sdisk' = WriteFile(sdisk, WriteTarget, Serialize(sdata), TRUE)
          /\ sstep' = "rename"
          /\ UNCHANGED shist
       \/ /\ sdisk' \in {sdisk, WriteFile(sdisk, WriteTarget, Serialize(sdata), FALSE)}
          /\ sstep' = "idle"
          /\ shist' = Failed
    /\ UNCHANGED <<sdata, swrite>>

\* save: os.Rename of the temp file over auth.json, or the best-effort removal
\* of the temp file when the rename fails
SRename ==
    /\ sstep = "rename"
    /\ \/ /\ sdisk.tmp.exists
          /\ sdisk' = [file |-> sdisk.tmp, tmp |-> Absent]
          /\ shist' = IF shist.failed THEN shist
                      ELSE [shist EXCEPT !.expect =
                               IF swrite.kind = "set_default" THEN @
                               ELSE [@ EXCEPT ![swrite.id] = swrite.cred]]
       \/ /\ sdisk' \in {sdisk, [sdisk EXCEPT !.tmp = Absent]}
          /\ shist' = Failed
    /\ sstep' = "idle"
    /\ UNCHANGED <<sdata, swrite>>

\* the process is interrupted inside save; a write under way stops where it is
SInterrupt ==
    /\ sstep \in {"write", "rename"}
    /\ sdisk' \in IF sstep = "write"
                  THEN {sdisk, WriteFile(sdisk, WriteTarget, Serialize(sdata), FALSE)}
                  ELSE {sdisk}
    /\ sstep' = "dead"
    /\ UNCHANGED <<sdata, swrite, shist>>

\* NewStore on the same data directory: a fresh store loads auth.json
SReopen ==
    /\ sstep \in {"idle", "dead"}
    /\ sdisk.file.exists => sdisk.file.complete
    /\ sdata' = Load(sdisk.file)
    /\ shist' = Clean(Load(sdisk.file))
    /\ swrite' = NoWrite
    /\ sstep' = "idle"
    /\ UNCHANGED sdisk

StoreStep ==
    \/ \E w \in StoreWrites : SBegin(w)
    \/ SWriteFile
    \/ SRename
    \/ SInterrupt
    \/ SReopen

-----------------------------------------------------------------------------
(* get_balances (tools.go): handleGetBalances                                *)

\* the chain set used when the input names none
DefaultBalanceChains == <<"ethereum", "base", "arbitrum", "optimism", "polygon">>

BalanceChains == {DefaultBalanceChains[i] : i \in DOMAIN DefaultBalanceChains}

\* chain names an input may give; "mars" has no config
AskedChains == {"ethereum", "base", "mars"}

RECURSIVE ChainLists(_)
ChainLists(n) ==
    IF n = 0 THEN {<< >>}
    ELSE LET shorter == ChainLists(n - 1)
         IN shorter \cup {Append(s, ch) : s \in {t \in shorter : Len(t) = n - 1},
                                          ch \in AskedChains}

\* the loop `for _, chainName := range params.Chains` is over once every
\* chain has been queried; a failed query only adds an error row
BalancesDoneOnError(i, list, rows) ==
    i > Len(list) \/ \E k \in DOMAIN rows : rows[k].error

BalancesDone(i, list, rows) == i > Len(list)

BalancesIdle ==
    [pc |-> "idle", asked |-> << >>, chains |-> << >>, i |-> 0, queries |-> << >>,
     rows |-> << >>, err |-> "none"]

BalancesUnused == bal = BalancesIdle

InitBalances == bal = BalancesIdle

\* handleGetBalances up to the query loop: address check, default chain set,
\* and the check that every chain has a config
GBInvoke(address, names) ==
    /\ bal.pc \in {"idle", "done"}
    /\ LET b0 == [BalancesIdle EXCEPT !.pc = "done", !.asked = names]
           list == IF Len(names) = 0 THEN DefaultBalanceChains ELSE names
       IN bal' =
            IF address \notin HexAddrs THEN [b0 EXCEPT !.err = "invalid address"]
            ELSE IF \E k \in DOMAIN list : list[k] \notin BalanceChains
            THEN [b0 EXCEPT !.err = "unknown chain"]
            ELSE [b0 EXCEPT !.pc = "loop", !.chains = list, !.i = 1]

\* one round of the loop: GetNativeBalance for chain i and the row it gives,
\* or the end of the handler; `queries` lists the chains queried so far
GBQuery(ok) ==
    /\ bal.pc = "loop"
    /\ bal' =
         IF BalancesDone(bal.i, bal.chains, bal.rows)
         THEN [bal EXCEPT !.pc = "done"]
         ELSE [bal EXCEPT !.i = @ + 1,
                          !.queries = Append(@, bal.chains[bal.i]),
                          !.rows = Append(@, [chain |-> bal.chains[bal.i], error |-> ~ok])]

BalancesStep ==
    \/ \E a \in {"0xA", "nothex"}, names \in ChainLists(MaxAsked) : GBInvoke(a, names)
    \/ \E ok \in BOOLEAN : GBQuery(ok)

-----------------------------------------------------------------------------
(* Tool capability lookup (capabilities.go): SupportsToolsForModel over the   *)
(* OpenRouter provider and the process-wide toolCapCache. Time is in hours.   *)

\* model ids a lookup may ask for: one of the provider's static list and
\* three that only the /models endpoint can know
CapModelIDs == Models("openrouter") \cup {"r-tools", "r-plain", "r-new"}

NotListed == "absent"

\* what pullOpenRouterModels may return: modelID -> supportsTools for the
\* models the endpoint lists
PulledMaps ==
    {[m \in CapModelIDs |-> IF m = "r-tools" THEN "true" ELSE NotListed],
     [m \in CapModelIDs |-> CASE m = "r-tools" -> "true" [] m = "r-plain" -> "false"
                              [] OTHER -> NotListed]}

\* `time.Now().Add(6 * time.Hour)`
CapTTL == 6

NoCapEntry == [ok |-> FALSE, expiry |-> 0, support |-> [m \in CapModelIDs |-> NotListed]]

NoLookup == [model |-> "", supports |-> FALSE, known |-> FALSE, http |-> FALSE, fresh |-> FALSE]

CapsIdle == [entry |-> NoCapEntry, now |-> 0, last |-> NoLookup]

CapsUnused == caps = CapsIdle

InitCaps == caps = CapsIdle

CTick ==
    /\ caps.now < MaxHours
    /\ caps' = [caps EXCEPT !.now = @ + 1]

\* SupportsToolsForModel(ctx, provider, modelID, apiKey) for the OpenRouter
\* provider, with fetchOpenRouter; `pulled` is the map the endpoint would
\* return and pullOK whether the request succeeds
CLookup(modelID, apiKey, pullOK, pulled) ==
    LET fresh == caps.entry.ok /\ caps.now < caps.entry.expiry
        ask == [NoLookup EXCEPT !.model = modelID, !.fresh = fresh]
        answer(v) == IF v = NotListed THEN [ask EXCEPT !.supports = TRUE]
                     ELSE [ask EXCEPT !.supports = (v = "true"), !.known = TRUE]
    IN caps' =
         IF modelID \in Models("openrouter")
         THEN [caps EXCEPT !.last = [ask EXCEPT !.supports = (modelID = "m-tools"),
                                                !.known = TRUE]]
         ELSE IF apiKey = ""
         THEN [caps EXCEPT !.last = [ask EXCEPT !.supports = TRUE]]
         ELSE IF fresh /\ caps.entry.support[modelID] # NotListed
         THEN [caps EXCEPT !.last = answer(caps.entry.support[modelID])]
         ELSE IF ~pullOK
         THEN [caps EXCEPT !.last = [ask EXCEPT !.supports = TRUE, !.http = TRUE]]
         ELSE [caps EXCEPT !.entry = [ok |-> TRUE, expiry |-> caps.now + CapTTL,
                                      support |-> pulled],
                           !.last = [answer(pulled[modelID]) EXCEPT !.http = TRUE]]

CapsStep ==
    \/ CTick
    \/ \E m \in CapModelIDs, key \in {"", "or-key"}, ok \in BOOLEAN, p \in PulledMaps :
          CLookup(m, key, ok, p)

-----------------------------------------------------------------------------
(* OAuth authorization-code flow (package auth, oauth.go): StartOAuthFlow,   *)
(* the loopback callback server and the token exchange                       *)

OAuthStates == {"s1", "s2"}

\* what a request to /callback may carry in its query
CallbackRequests ==
    [state : OAuthStates \cup {""}, error : {"", "access_denied"}, code : {"", "code-a", "code-b"}]

\* codeChan and errChan: `make(chan ..., 1)`
ChanCap == 1

\* a send on a full channel blocks its goroutine; nothing receives twice, so
\* the blocked value is never delivered
Send(ch, v) == IF Len(ch) < ChanCap THEN Append(ch, v) ELSE ch

\* `if state != expectedState`
StateOKAny(got, expected) == TRUE

StateOK(got, expected) == got = expected

NoOAuthResult == [ok |-> FALSE, err |-> "none", from |-> 0]

OAuthIdle ==
    [pc |-> "idle", state |-> "", server |-> "off", codeChan |-> <<>>, errChan |-> <<>>,
     code |-> [val |-> "", from |-> 0], handled |-> <<>>, posted |-> <<>>,
     result |-> NoOAuthResult, ctxDone |-> FALSE]

OAuthUnused == oauth = OAuthIdle

InitOAuthFlow == oauth = OAuthIdle

OReturn(o, res) == [o EXCEPT !.pc = "done", !.server = "closed", !.result = res]

\* StartOAuthFlow up to the select: generateState, startCallbackServer,
\* buildAuthURL, browser.OpenURL (whose failure is only printed)
OStart(s, outcome) ==
    /\ oauth.pc = "idle"
    /\ oauth' =
         CASE outcome = "state error" ->
                [oauth EXCEPT !.pc = "done",
                              !.result = [NoOAuthResult EXCEPT !.err = "failed to generate state"]]
           [] outcome = "listen error" ->
                [oauth EXCEPT !.pc = "done", !.state = s,
                              !.result = [NoOAuthResult EXCEPT !.err = "failed to start callback server"]]
           [] outcome = "url error" ->
                OReturn([oauth EXCEPT !.state = s],
                        [NoOAuthResult EXCEPT !.err = "failed to build auth URL"])
           [] OTHER ->
                [oauth EXCEPT !.pc = "select", !.state = s, !.server = "listening"]

\* the handler of /callback, run by the server for every request it gets
\* while it listens
OCallback(r) ==
    /\ oauth.server = "listening"
    /\ Len(oauth.handled) < MaxCallbacks
    /\ LET n == Len(oauth.handled) + 1
           h == [oauth EXCEPT !.handled = Append(@, r)]
       IN oauth' =
            IF ~StateOK(r.state, oauth.state)
            THEN [h EXCEPT !.errChan = Send(@, [val |-> "invalid state parameter", from |-> n])]
            ELSE IF r.error # ""
            THEN [h EXCEPT !.errChan = Send(@, [val |-> "OAuth error", from |-> n])]
            ELSE IF r.code = ""
            THEN [h EXCEPT !.errChan = Send(@, [val |-> "no authorization code in callback", from |-> n])]
            ELSE [h EXCEPT !.codeChan = Send(@, [val |-> r.code, from |-> n])]

\* `server.Serve` returns an error other than ErrServerClosed
OServeError ==
    /\ oauth.server = "listening"
    /\ oauth' = [oauth EXCEPT !.server = "failed",
                              !.errChan = Send(@, [val |-> "callback server error", from |-> 0])]

\* the caller cancels the ctx it gave to StartOAuthFlow while the flow waits
\* in the select or in the POST of exchangeCodeForTokens (http.PostForm takes
\* no context)
OCancel ==
    /\ oauth.pc \in {"select", "exchange"}
    /\ ~oauth.ctxDone
    /\ oauth' = [oauth EXCEPT !.ctxDone = TRUE]

\* the select of StartOAuthFlow: any ready case may be taken
OSelect(case) ==
    /\ oauth.pc = "select"
    /\ CASE case = "code" ->
              /\ oauth.codeChan # <<>>
              /\ oauth' = [oauth EXCEPT !.pc = "exchange", !.code = Head(oauth.codeChan),
                                        !.codeChan = Tail(@)]
         [] case = "err" ->
              /\ oauth.errChan # <<>>
              /\ oauth' = OReturn([oauth EXCEPT !.errChan = Tail(@)],
                                  [ok |-> FALSE, err |-> Head(oauth.errChan).val,
                                   from |-> Head(oauth.errChan).from])
         [] OTHER ->
              oauth' = OReturn(oauth, [NoOAuthResult EXCEPT !.err = "OAuth flow timed out"])

\* exchangeCodeForTokens and parseTokenResponse; the deferred server.Close
\* runs when StartOAuthFlow returns
OExchange(outcome) ==
    /\ oauth.pc = "exchange"
    /\ oauth' = OReturn([oauth EXCEPT !.posted = Append(@, oauth.code.val)],
                        [ok |-> outcome = "ok",
                         err |-> IF outcome = "ok" THEN "none" ELSE outcome,
                         from |-> oauth.code.from])

OAuthStep ==
    \/ \E s \in OAuthStates, o \in {"ok", "state error", "listen error", "url error"} : OStart(s, o)
    \/ \E r \in CallbackRequests : OCallback(r)
    \/ OServeError
    \/ OCancel
    \/ \E c \in {"code", "err", "timeout"} : OSelect(c)
    \/ \E o \in {"ok", "failed to exchange code", "token endpoint returned status",
                 "no access token in response"} : OExchange(o)

-----------------------------------------------------------------------------
(* Receipts (tools.go, redact.go, receipts.go): get_receipt, the wait after a *)
(* broadcast, and the receipt store. Time is in seconds.                      *)

\* transaction hashes (32 bytes) and the texts a tool input may give for them
TxHashes == {"ab", "cd"}

TxInputs == {"0xab", "0xAB", "0xcd", "ab", ""}

NoHash == "invalid"

\* parseTxHash: "0x" prefix, 66 characters, hex.DecodeString of the rest
\* (which takes upper-case and lower-case digits alike)
ParseTxHash(v) ==
    CASE v \in {"0xab", "0xAB"} -> "ab"
      [] v = "0xcd" -> "cd"
      [] OTHER -> NoHash

\* common.Hash.Hex: "0x" and the lower-case digits
HashHex(h) == "0x" \o h

\* the hash of the transaction a send or approve signs and broadcasts
SentHash == "cd"

NoReceipt == [Status |-> 0, GasUsed |-> 0, mined |-> FALSE]

ChainReceipts == {[Status |-> 1, GasUsed |-> 21, mined |-> TRUE],
                  [Status |-> 0, GasUsed |-> 50, mined |-> TRUE]}

\* ReceiptStore.Get: `WHERE chain = ? AND tx_hash = ?`
StoreGet(store, chain, txHash) == {row \in store : row.chain = chain /\ row.tx_hash = txHash}

\* ReceiptStore.Upsert: the row's key is (chain, receipt.TxHash.Hex())
StoreUpsert(store, chain, h, receipt) ==
    (store \ StoreGet(store, chain, HashHex(h)))
        \cup {[chain |-> chain, tx_hash |-> HashHex(h),
               status |-> receipt.Status, gas_used |-> receipt.GasUsed]}

WaitTools == {"send_native", "send_token", "approve_token"}

\* the deadline each handler puts on its own context
HandlerTimeout(tool) == IF tool = "send_native" THEN 20 ELSE 25

\* maybeWaitAndPersistReceipt: `context.WithTimeout(ctx, 2*time.Minute)`
WaitTimeout == 120

\* WaitMined: `time.NewTicker(2 * time.Second)`
TickerPeriod == 2

\* a context derived with WithTimeout ends at its own deadline or at its
\* parent's, whichever comes first; the handler started at time 0
WaitDeadline(tool, sentAt) ==
    IF sentAt + WaitTimeout < HandlerTimeout(tool) THEN sentAt + WaitTimeout
    ELSE HandlerTimeout(tool)

NoToolOut == [first |-> "", status |-> 0, gas |-> 0, line |-> "", err |-> "none"]

ReceiptIdle ==
    [store |-> {}, mined |-> [h \in TxHashes |-> NoReceipt], sent |-> FALSE, pc |-> "idle",
     call |-> [op |-> "none", chain |-> "", tx_hash |-> "", wait |-> "unset", stored |-> FALSE],
     now |-> 0, sentAt |-> 0, deadline |-> 0, rpcs |-> 0, out |-> NoToolOut]

ReceiptUnused == rcpt = ReceiptIdle

InitReceipts == rcpt = ReceiptIdle

\* the chain includes a transaction: its receipt exists from now on
RMine(h, r) ==
    /\ ~rcpt.mined[h].mined
    /\ h = SentHash => rcpt.sent
    /\ rcpt' = [rcpt EXCEPT !.mined[h] = r]

\* handleGetReceipt
RGetReceipt(chain, txin, rpcOK) ==
    /\ rcpt.pc \in {"idle", "done"}
    /\ LET h == ParseTxHash(txin)
           hit == StoreGet(rcpt.store, chain, txin)
           call == [op |-> "get_receipt", chain |-> chain, tx_hash |-> txin, wait |-> "unset",
                    stored |-> h # NoHash /\ StoreGet(rcpt.store, chain, HashHex(h)) # {}]
           r0 == [rcpt EXCEPT !.pc = "done", !.call = call, !.rpcs = 0, !.now = 0,
                              !.out = NoToolOut]
       IN rcpt' =
            IF chain = "" THEN [r0 EXCEPT !.out.err = "chain is required"]
            ELSE IF txin = "" THEN [r0 EXCEPT !.out.err = "tx_hash is required"]
            ELSE IF chain \notin KnownChains THEN [r0 EXCEPT !.out.err = "unknown chain"]
            ELSE IF h = NoHash THEN [r0 EXCEPT !.out.err = "invalid tx hash"]
            ELSE IF hit # {}
            THEN LET row == CHOOSE row \in hit : TRUE
                 IN [r0 EXCEPT !.out = [NoToolOut EXCEPT !.first = "Receipt (cached):",
                                                         !.status = row.status,
                                                         !.gas = row.gas_used]]
            ELSE IF ~(rpcOK /\ rcpt.mined[h].mined)
            THEN [r0 EXCEPT !.rpcs = 1, !.out.err = "receipt not found (tx may be pending)"]
            ELSE [r0 EXCEPT !.rpcs = 1,
                            !.store = StoreUpsert(@, chain, h, rcpt.mined[h]),
                            !.out = [NoToolOut EXCEPT !.first = "Receipt:",
                                                      !.status = rcpt.mined[h].Status,
                                                      !.gas = rcpt.mined[h].GasUsed]]

\* a confirmed send or approve up to the end of signAndSendTx, `used` seconds
\* after the handler started, and the head of maybeWaitAndPersistReceipt
RSend(tool, wait, used) ==
    /\ rcpt.pc \in {"idle", "done"}
    /\ ~rcpt.sent
    /\ LET call == [op |-> tool, chain |-> "sepolia", tx_hash |-> HashHex(SentHash),
                    wait |-> wait, stored |-> FALSE]
           r0 == [rcpt EXCEPT !.call = call, !.sent = TRUE, !.rpcs = 0, !.now = used,
                              !.sentAt = used, !.deadline = WaitDeadline(tool, used),
                              !.out = [NoToolOut EXCEPT !.first = "Broadcasted tx"]]
       IN rcpt' = IF wait = "false" THEN [r0 EXCEPT !.pc = "done"]
                  ELSE [r0 EXCEPT !.pc = "polling"]

\* one round of the select in WaitMined, and what maybeWaitAndPersistReceipt
\* and the handler do with its result
RTick(rpcOK) ==
    /\ rcpt.pc = "polling"
    /\ LET t == rcpt.now + TickerPeriod IN
       \/ /\ t >= rcpt.deadline
          /\ rcpt' = [rcpt EXCEPT !.pc = "done", !.now = rcpt.deadline]
       \/ /\ t <= rcpt.deadline
          /\ rcpt' =
               IF rpcOK /\ rcpt.mined[SentHash].mined
               THEN [rcpt EXCEPT !.pc = "done", !.now = t, !.rpcs = @ + 1,
                                 !.store = StoreUpsert(@, rcpt.call.chain, SentHash,
                                                       rcpt.mined[SentHash]),
                                 !.out = [@ EXCEPT !.line = "Receipt status, gas used",
                                                   !.status = rcpt.mined[SentHash].Status,
                                                   !.gas = rcpt.mined[SentHash].GasUsed]]
               ELSE [rcpt EXCEPT !.now = t, !.rpcs = @ + 1]

ReceiptStep ==
    \/ \E h \in TxHashes, r \in ChainReceipts : RMine(h, r)
    \/ \E c \in KnownChains \cup {"", "nochain"}, v \in TxInputs, ok \in BOOLEAN :
          RGetReceipt(c, v, ok)
    \/ \E tool \in WaitTools, w \in {"unset", "true", "false"}, used \in SendDelays :
          RSend(tool, w, used)
    \/ \E ok \in BOOLEAN : RTick(ok)

-----------------------------------------------------------------------------
(* OpenAI-compatible adapter (openai_compat.go): Chat over streamChat         *)

NoDelta == [index |-> -1, type |-> "", id |-> "", name |-> "", args |-> ""]

\* the tool-call delta a chunk may carry: the opening delta of call 0, with
\* type, id and name, or a later delta of call 0 with a piece of its arguments
ToolDeltas ==
    {NoDelta,
     [index |-> 0, type |-> "function", id |-> "t1", name |-> "list_wallets", args |-> ""],
     [index |-> 0, type |-> "", id |-> "", name |-> "", args |-> "{}"]}

\* a chunk of the stream: at most one choice, with its delta; usage 0 stands
\* for `chunk.Usage == nil`
Chunks ==
    [choice : BOOLEAN, content : {"", "He", "llo"}, tool : ToolDeltas,
     finish : {"", "stop"}, usage : {0, 7}]

RealChunks ==
    {ch \in Chunks : /\ ~ch.choice => (ch.content = "" /\ ch.tool = NoDelta /\ ch.finish = "")
                     /\ ch.finish = "stop" => (ch.content = "" /\ ch.tool = NoDelta)
                     /\ ch.tool # NoDelta => ch.content = ""}

RECURSIVE ChunkSeqs(_)
ChunkSeqs(n) ==
    IF n = 0 THEN {<< >>}
    ELSE LET shorter == ChunkSeqs(n - 1)
         IN shorter \cup {Append(s, ch) : s \in {t \in shorter : Len(t) = n - 1},
                                          ch \in RealChunks}

\* the loop of streamChat: every choice of every chunk is appended to
\* final.Choices with the chunk's delta as its message, and final.Usage is
\* overwritten by every chunk that has one
RECURSIVE StreamChat(_, _)
StreamChat(chunks, final) ==
    IF chunks = << >> THEN final
    ELSE LET ch == Head(chunks)
             withChoice ==
                 IF ch.choice
                 THEN [final EXCEPT !.choices =
                          Append(@, [content |-> ch.content, finish |-> ch.finish,
                                     toolCalls |-> IF ch.tool = NoDelta THEN << >>
                                                   ELSE << ch.tool >>])]
                 ELSE final
         IN StreamChat(Tail(chunks),
                       IF ch.usage # 0 THEN [withChoice EXCEPT !.usage = ch.usage]
                       ELSE withChoice)

EmptyCompletion == [choices |-> << >>, usage |-> 0]

\* the part of Chat after the completion arrived: choice 0 becomes the
\* ChatResponse, tool calls of type function are kept
ChatResponseOf(resp) ==
    IF resp.choices = << >>
    THEN [err |-> "no choices in response", content |-> "", stop |-> "", usage |-> 0,
          calls |-> << >>]
    ELSE LET choice == resp.choices[1]
         IN [err |-> "none", content |-> choice.content, stop |-> choice.finish,
             usage |-> resp.usage,
             calls |-> [i \in 1..Len(SelectSeq(choice.toolCalls,
                                               LAMBDA tc : tc.type = "function")) |->
                          LET tc == SelectSeq(choice.toolCalls,
                                              LAMBDA d : d.type = "function")[i]
                          IN [id |-> tc.id, name |-> tc.name, input |-> tc.args]]]

\* the completion the endpoint returns to the non-streamed call for the
\* message it would stream as `chunks`: one choice whose message is the
\* deltas put together
RECURSIVE Whole(_, _)
Whole(chunks, msg) ==
    IF chunks = << >> THEN msg
    ELSE LET ch == Head(chunks)
             t == ch.tool
             calls == IF t = NoDelta THEN msg.toolCalls
                      ELSE IF \E i \in DOMAIN msg.toolCalls : msg.toolCalls[i].index = t.index
                      THEN [i \in DOMAIN msg.toolCalls |->
                              IF msg.toolCalls[i].index = t.index
                              THEN [msg.toolCalls[i] EXCEPT
                                      !.type = IF @ = "" THEN t.type ELSE @,
                                      !.id = IF @ = "" THEN t.id ELSE @,
                                      !.name = @ \o t.name,
                                      !.args = @ \o t.args]
                              ELSE msg.toolCalls[i]]
                      ELSE Append(msg.toolCalls, t)
         IN Whole(Tail(chunks),
                  [content |-> msg.content \o ch.content,
                   finish |-> IF ch.finish # "" THEN ch.finish ELSE msg.finish,
                   toolCalls |-> calls,
                   usage |-> IF ch.usage # 0 THEN ch.usage ELSE msg.usage])

NonStreamed(chunks) ==
    LET msg == Whole(chunks, [content |-> "", finish |-> "", toolCalls |-> << >>, usage |-> 0])
    IN [choices |-> << [content |-> msg.content, finish |-> msg.finish,
                        toolCalls |-> msg.toolCalls] >>,
        usage |-> msg.usage]

NoChatResponse == [err |-> "none", content |-> "", stop |-> "", usage |-> 0, calls |-> << >>]

StreamUnused ==
    stream = [chunks |-> << >>, pc |-> "unused", via |-> "", sent |-> << >>,
              resp |-> NoChatResponse]

\* a completion streams at least one chunk that has a choice
InitStream ==
    \E chunks \in {s \in ChunkSeqs(MaxChunks) : \E i \in DOMAIN s : s[i].choice} :
        stream = [chunks |-> chunks, pc |-> "start", via |-> "", sent |-> << >>,
                  resp |-> NoChatResponse]

\* how streamChat may end: with the whole stream read, with "streaming
\* disabled" before any request, with an error of CreateChatCompletionStream,
\* or with an error of stream.Recv
StreamOutcomes == {"ok", "disabled", "open error", "recv error"}

\* `if err != nil` after streamChat
StreamFailedNever(outcome) == FALSE

StreamFailed(outcome) == outcome # "ok"

\* OpenAIProvider.Chat: streamChat, then CreateChatCompletion when streamChat
\* returned an error; `sent` lists the requests that went to the endpoint
SChat(outcome, plainOK) ==
    /\ stream.pc = "start"
    /\ LET streamed == IF outcome = "disabled" THEN << >> ELSE << "stream" >>
       IN stream' =
            IF ~StreamFailed(outcome)
            THEN [stream EXCEPT
                    !.pc = "done", !.via = "stream", !.sent = streamed,
                    !.resp = ChatResponseOf(IF outcome = "ok"
                                            THEN StreamChat(stream.chunks, EmptyCompletion)
                                            ELSE EmptyCompletion)]
            ELSE IF plainOK
            THEN [stream EXCEPT !.pc = "done", !.via = "plain",
                                !.sent = Append(streamed, "plain"),
                                !.resp = ChatResponseOf(NonStreamed(stream.chunks))]
            ELSE [stream EXCEPT !.pc = "done", !.via = "plain",
                                !.sent = Append(streamed, "plain"),
                                !.resp = [NoChatResponse EXCEPT
                                            !.err = "failed to create chat completion"]]

StreamStep == \E o \in StreamOutcomes, ok \in BOOLEAN : SChat(o, ok)

-----------------------------------------------------------------------------
(* Specifications *)

LateUnused == OAuthUnused /\ ReceiptUnused /\ CapsUnused /\ StreamUnused /\ BalancesUnused

OtherUnused ==
    /\ AgentUnused /\ ValidateUnused /\ HandlerUnused /\ SignerUnused /\ ChainUnused
    /\ AuthUnused /\ StoreUnused

otherVars ==
    <<agentVars, validateVars, handlerVars, signerVars, chainVars, authVars, storeVars>>

InitAgent ==
    /\ InitAgentWith([callers |-> Callers, budget |-> MaxToolCalls, convLimit |-> MaxConv])
    /\ ValidateUnused /\ HandlerUnused /\ SignerUnused /\ ChainUnused /\ AuthUnused /\ StoreUnused /\ LateUnused

InitBudget ==
    /\ InitAgentWith([callers |-> {"c1"}, budget |-> MaxTurnCalls, convLimit |-> 2])
    /\ ValidateUnused /\ HandlerUnused /\ SignerUnused /\ ChainUnused /\ AuthUnused /\ StoreUnused /\ LateUnused

NextAgent ==
    /\ \E c \in Callers : AgentStep(c)
    /\ UNCHANGED <<validateVars, handlerVars, signerVars, chainVars, authVars, storeVars, lateVars>>

SpecAgent == InitAgent /\ [][NextAgent]_vars

SpecBudget == InitBudget /\ [][NextAgent]_vars

InitValidate == AgentUnused /\ InitValidateInputs /\ HandlerUnused /\ SignerUnused /\ ChainUnused /\ AuthUnused /\ StoreUnused /\ LateUnused

NextValidate == ApplyValidate /\ UNCHANGED <<agentVars, handlerVars, signerVars, chainVars, authVars, storeVars, lateVars>>

SpecValidate == InitValidate /\ [][NextValidate]_vars

InitHandler == AgentUnused /\ ValidateUnused /\ InitHandlerEnv /\ SignerUnused /\ ChainUnused /\ AuthUnused /\ StoreUnused /\ LateUnused

NextHandler == HandlerStep /\ UNCHANGED <<agentVars, validateVars, signerVars, chainVars, authVars, storeVars, lateVars>>

SpecHandler == InitHandler /\ [][NextHandler]_vars

InitSigner == AgentUnused /\ ValidateUnused /\ HandlerUnused /\ InitSignerThreads /\ ChainUnused /\ AuthUnused /\ StoreUnused /\ LateUnused

NextSigner ==
    /\ \E t \in Threads : SignerStep(t)
    /\ UNCHANGED <<agentVars, validateVars, handlerVars, chainVars, authVars, storeVars, lateVars>>

SpecSigner == InitSigner /\ [][NextSigner]_vars

InitChain == AgentUnused /\ ValidateUnused /\ HandlerUnused /\ SignerUnused /\ InitChainClient /\ AuthUnused /\ StoreUnused /\ LateUnused

NextChain ==
    /\ \E k \in Callers : ChainStep(k)
    /\ UNCHANGED <<agentVars, validateVars, handlerVars, signerVars, authVars, storeVars, lateVars>>

SpecChain == InitChain /\ [][NextChain]_vars

InitAuth ==
    /\ AgentUnused /\ ValidateUnused /\ HandlerUnused /\ SignerUnused /\ ChainUnused
    /\ InitAuthManager /\ StoreUnused /\ LateUnused

NextAuth ==
    /\ AuthStep
    /\ UNCHANGED <<agentVars, validateVars, handlerVars, signerVars, chainVars, storeVars, lateVars>>

SpecAuth == InitAuth /\ [][NextAuth]_vars

InitStore ==
    /\ AgentUnused /\ ValidateUnused /\ HandlerUnused /\ SignerUnused /\ ChainUnused
    /\ AuthUnused /\ InitStoreDir /\ LateUnused

NextStore ==
    /\ StoreStep
    /\ UNCHANGED <<agentVars, validateVars, handlerVars, signerVars, chainVars, authVars, lateVars>>

SpecStore == InitStore /\ [][NextStore]_vars


InitOAuth == OtherUnused /\ InitOAuthFlow /\ ReceiptUnused /\ CapsUnused /\ StreamUnused /\ BalancesUnused

NextOAuth == OAuthStep /\ UNCHANGED <<otherVars, rcpt, caps, stream, bal>>

SpecOAuth == InitOAuth /\ [][NextOAuth]_vars

\* the flow's own goroutine runs whenever it can: a select with a ready case
\* returns; nothing makes the token endpoint answer
OSelectStep == (\E c \in {"code", "err", "timeout"} : OSelect(c)) /\ UNCHANGED <<otherVars, rcpt, caps, stream, bal>>

SpecOAuthLive == InitOAuth /\ [][NextOAuth]_vars /\ WF_vars(OSelectStep)

InitReceipt == OtherUnused /\ OAuthUnused /\ InitReceipts /\ CapsUnused /\ StreamUnused /\ BalancesUnused

NextReceipt == ReceiptStep /\ UNCHANGED <<otherVars, oauth, caps, stream, bal>>

SpecReceipt == InitReceipt /\ [][NextReceipt]_vars

InitCapabilities == OtherUnused /\ OAuthUnused /\ ReceiptUnused /\ InitCaps /\ StreamUnused /\ BalancesUnused

NextCapabilities == CapsStep /\ UNCHANGED <<otherVars, oauth, rcpt, stream, bal>>

SpecCapabilities == InitCapabilities /\ [][NextCapabilities]_vars

InitStreaming == OtherUnused /\ OAuthUnused /\ ReceiptUnused /\ CapsUnused /\ InitStream /\ BalancesUnused

NextStreaming == StreamStep /\ UNCHANGED <<otherVars, oauth, rcpt, caps, bal>>

SpecStreaming == InitStreaming /\ [][NextStreaming]_vars

InitGetBalances == OtherUnused /\ OAuthUnused /\ ReceiptUnused /\ CapsUnused /\ StreamUnused /\ InitBalances

NextGetBalances == BalancesStep /\ UNCHANGED <<otherVars, oauth, rcpt, caps, stream>>

SpecGetBalances == InitGetBalances /\ [][NextGetBalances]_vars
-----------------------------------------------------------------------------
(* Properties of the agent orchestrator *)

InCritical(c) == pc[c] \notin {"idle", "waiting", "reading"}

\* the caller's chat turn is in progress: the user message is appended and the
\* call has not returned
InTurn(c) == op[c] = "chat" /\ pc[c] \in {"call", "tools", "handler", "continue",
                                           "final", "ret_ok", "ret_err"}

\* the conversation a turn starts from, followed by its user message
TurnBase(c) == Append(convAtStart[c], UserMessage(arg[c]))

\* C2: a turn executes at most 8 tool calls, whatever the provider returns
C2_TurnWithinToolBudget == \A c \in Callers : callsInTurn[c] <= 8

\* C3: while a chat turn is in progress its caller holds the mutex, every other
\* caller is outside or blocked at Lock, and until the turn's own final append the
\* conversation is exactly what the turn made it
C3_TurnsAreExclusive ==
    \A c \in Callers :
        InTurn(c) =>
            /\ mu = c
            /\ \A d \in Callers \ {c} : ~InCritical(d)
            /\ pc[c] \in {"call", "tools", "handler", "continue", "final"}
                  => conversation = TurnBase(c)

C3_Witness ==
    \E c, d \in Callers :
        /\ pc[c] = "handler" /\ op[c] = "chat"
        /\ pc[d] = "waiting" /\ op[d] = "reset"
        /\ Len(convAtStart[c]) > 0

\* C4: a turn that returns successfully leaves the pre-turn conversation as a
\* prefix, followed by the user message and at most one assistant message (the
\* final text); the conversation holds no tool-call or tool-result message
C4_SuccessfulTurnAppends ==
    \A c \in Callers :
        (op[c] = "chat" /\ pc[c] = "ret_ok") =>
            /\ \/ conversation = TurnBase(c)
               \/ /\ response[c].content # ""
                  /\ conversation = Append(TurnBase(c), Msg("assistant", response[c].content))
            /\ \A k \in 1..Len(conversation) :
                  /\ conversation[k].role \in {"user", "assistant"}
                  /\ DOMAIN conversation[k] = {"role", "content"}

C4_Witness ==
    \E c \in Callers :
        /\ op[c] = "chat" /\ pc[c] = "ret_ok"
        /\ callsInTurn[c] >= 3
        /\ Len(convAtStart[c]) > 0
        /\ conversation = Append(TurnBase(c), Msg("assistant", "answer"))

\* C5: a turn aborted by an adapter error or by cancellation leaves the
\* pre-turn conversation followed by the user message, which is the last message
C5_AbortedTurnKeepsUserMessage ==
    \A c \in Callers :
        (op[c] = "chat" /\ pc[c] = "ret_err") =>
            /\ conversation = TurnBase(c)
            /\ conversation[Len(conversation)] = UserMessage(arg[c])

C5_Witness ==
    \E c \in Callers :
        /\ op[c] = "chat" /\ pc[c] = "ret_err"
        /\ cancelled[c]
        /\ callsInTurn[c] >= 2
        /\ Len(convAtStart[c]) > 0

\* the marks handlers leave when they run one at a time in index order
SequentialLog(n) ==
    [k \in 1..n |-> IF k % 2 = 1 THEN <<"start", (k + 1) \div 2>>
                                 ELSE <<"return", k \div 2>>]

\* C10: the handlers of a batch run one at a time in index order, and the
\* results handed to ChatWithToolResults, and the tool messages built from them,
\* are in the order of the batch with results[i].tool_use_id = tc_i.id
C10_BatchInOrder ==
    \A c \in Callers :
        /\ pc[c] \in {"tools", "handler", "continue"}
              => /\ handlerLog[c] = SequentialLog(Len(handlerLog[c]))
                 /\ Len(handlerLog[c]) =
                       2 * (idx[c] - 1) + (IF pc[c] = "tools" THEN 0
                                           ELSE IF pc[c] = "handler" THEN 1 ELSE 2)
        /\ pc[c] = "continue"
              => /\ Len(toolResults[c]) = Len(toolCalls[c])
                 /\ \A i \in 1..Len(toolCalls[c]) :
                       /\ toolResults[c][i].tool_use_id = toolCalls[c][i].id
                       /\ ToolMessages(toolCalls[c], toolResults[c])[i + 1].tool_call_id
                             = toolCalls[c][i].id

C10_Witness ==
    \E c \in Callers :
        /\ pc[c] = "continue"
        /\ Len(toolCalls[c]) = 2
        /\ toolResults[c][1].is_error /\ ~toolResults[c][2].is_error

\* the events of the batch in progress are the last ones of the turn's list,
\* one per mark in handlerLog
BatchBase(c) == Len(events[c]) - Len(handlerLog[c])

\* C11: for every tool call executed in the turn the tool_result event carries
\* is_error exactly when ExecuteTool returned an error for it (an unknown tool name
\* included), and so does the ToolResult stored for the provider
C11_IsErrorIffHandlerFailed ==
    \A c \in Callers :
        InTurn(c) =>
            /\ Len(events[c]) = Len(occurred[c])
            /\ \A i \in 1..Len(occurred[c]) :
                  occurred[c][i].what = "result" =>
                      /\ events[c][i].type = "tool_result"
                      /\ events[c][i].is_error = occurred[c][i].failed
            /\ pc[c] \in {"tools", "handler", "continue"} =>
                  \A j \in 1..(Len(handlerLog[c]) \div 2) :
                      /\ toolResults[c][j].is_error = occurred[c][BatchBase(c) + 2 * j].failed
                      /\ toolCalls[c][j].name \notin KnownTools => toolResults[c][j].is_error

C11_Witness ==
    \E c \in Callers :
        /\ pc[c] = "continue" /\ Len(toolCalls[c]) = 2
        /\ callsInTurn[c] = 3
        /\ toolResults[c][1].is_error /\ ~toolResults[c][2].is_error
        /\ events[c][1].type = "tool_call" /\ events[c][2].is_error
        /\ toolCalls[c][1].name = "bogus"

\* C12: the event list of a turn follows what happened, in order: each tool_call
\* event is immediately followed by the tool_result event of the same tool (also
\* when it failed), the tool events follow the order in which the handlers ran,
\* and the final content event is the last event
C12_EventsInOrderOfOccurrence ==
    \A c \in Callers :
        InTurn(c) =>
            /\ Len(events[c]) = Len(occurred[c])
            /\ \A i \in 1..Len(events[c]) :
                  LET e == events[c][i]
                      o == occurred[c][i]
                  IN /\ e.tool = o.tool
                     /\ o.what = "call" <=> e.type = "tool_call"
                     /\ o.what = "result" <=> e.type = "tool_result"
                     /\ o.what \in {"notice", "final"} <=> e.type = "content"
                     /\ e.type = "tool_call" =>
                           IF i = Len(events[c]) THEN pc[c] = "handler"
                           ELSE /\ events[c][i + 1].type = "tool_result"
                                /\ events[c][i + 1].tool = e.tool
                     /\ e.type = "tool_result" =>
                           i > 1 /\ events[c][i - 1].type = "tool_call"
                     /\ o.what = "final" =>
                           i = Len(events[c]) /\ pc[c] = "ret_ok"
                     /\ o.what = "notice" => i = 1
            /\ pc[c] = "ret_ok" =>
                  ReturnedEvents(events[c], FALSE) = events[c]

C12_Witness ==
    \E c \in Callers :
        /\ op[c] = "chat" /\ pc[c] = "ret_ok"
        /\ Len(events[c]) = 7
        /\ events[c][2].is_error /\ events[c][2].tool = "bogus"
        /\ events[c][5].type = "tool_call" /\ events[c][5].tool = "list_wallets"
        /\ events[c][7].type = "content"

\* C13: once 8 tool calls have run in a turn and the provider asks for another, the
\* loop stops instead of running it, and the call returns the events of the tool
\* calls already executed followed by an error event
C13_ExhaustedBudgetEndsTurnWithTrace ==
    \A c \in Callers :
        /\ ~(op[c] = "chat" /\ pc[c] = "tools" /\ callsInTurn[c] >= 8)
        /\ (/\ op[c] = "chat" /\ pc[c] \in {"ret_ok", "ret_err"}
            /\ callsInTurn[c] >= 8 /\ Len(response[c].calls) > 0)
              => LET r == ReturnedEvents(events[c], pc[c] = "ret_err")
                 IN /\ Len(r) = Len(events[c]) + 1
                    /\ SubSeq(r, 1, Len(events[c])) = events[c]
                    /\ r[Len(r)].type = "error"

\* C14: SetModel(m) succeeds exactly when m is one of the current provider's
\* models; then the provider's model is m and the conversation is empty; otherwise
\* it returns the error and leaves the model and the conversation as they were
C14_SetModelIffListed ==
    [][\A c \in Callers :
          (pc[c] = "locked" /\ op[c] = "set_model" /\ pc'[c] # "locked") =>
              IF arg[c] \in Models(provider.id)
              THEN /\ pc'[c] = "ret_ok"
                   /\ provider' = [provider EXCEPT !.model = arg[c]]
                   /\ conversation' = << >>
              ELSE /\ pc'[c] = "ret_err"
                   /\ provider' = provider
                   /\ conversation' = conversation]_vars

C14_Witness ==
    \E c \in Callers :
        /\ op[c] = "set_model" /\ pc[c] = "ret_err"
        /\ arg[c] = "m-plain" /\ provider.id = "openrouter"
        /\ Len(conversation) > 0

\* C15: SetProvider(p) that fails to create the provider leaves the active provider
\* (the one the next turn calls) and the conversation as they were; one that
\* succeeds makes the provider of p active and empties the conversation
C15_SetProviderKeepsPriorOnFailure ==
    [][\A c \in Callers :
          (pc[c] = "locked" /\ op[c] = "set_provider" /\ pc'[c] # "locked") =>
              \/ /\ pc'[c] = "ret_err"
                 /\ provider' = provider
                 /\ conversation' = conversation
              \/ /\ pc'[c] = "ret_ok"
                 /\ provider' = [id |-> arg[c], model |-> DefaultModelOf(arg[c])]
                 /\ conversation' = << >>]_vars

C15_Witness ==
    \E c \in Callers :
        /\ op[c] = "set_provider" /\ pc[c] = "ret_err"
        /\ arg[c] = "openai" /\ provider = [id |-> "openrouter", model |-> "m-tools"]
        /\ Len(conversation) > 0

ToolsDisabledNotice == ContentEvent("Tools disabled for model")

\* C29: in a turn whose model is known not to support tools the request is
\* built with no tools, and the turn's events hold the tools-disabled notice
\* exactly once, as their first element, ahead of the model's reply
C29_ToolsDisabledTurn ==
    \A c \in Callers :
        LET st == SupportsToolsForModel(provider)
        IN (/\ op[c] = "chat"
            /\ pc[c] \in {"call", "tools", "handler", "continue", "final", "ret_ok"}
            /\ st[2] /\ ~st[1]) =>
               /\ reqTools[c] = {}
               /\ Len(events[c]) >= 1 /\ events[c][1] = ToolsDisabledNotice
               /\ \A i \in 2..Len(events[c]) : events[c][i] # ToolsDisabledNotice
               /\ (pc[c] = "ret_ok" /\ response[c].content # "") =>
                     /\ Len(events[c]) >= 2
                     /\ events[c][Len(events[c])] = ContentEvent(response[c].content)

C29_Witness ==
    \E c \in Callers :
        /\ op[c] = "chat" /\ pc[c] = "ret_ok"
        /\ provider.model = "m-plain"
        /\ reqTools[c] = {}
        /\ Len(events[c]) = 2
        /\ events[c][1] = ToolsDisabledNotice
        /\ events[c][2].type = "content" /\ events[c][2] # ToolsDisabledNotice

\* C36: the request that continues a turn after a tool round holds, after the
\* conversation, one tool message for every tool call the turn has executed
\* so far, those of the earlier rounds included
C36_RequestCarriesWholeTrace ==
    \A c \in Callers :
        pc[c] = "continue" =>
            Len(SelectSeq(conversation \o ToolMessages(toolCalls[c], toolResults[c]),
                          LAMBDA m : m.role = "tool")) = callsInTurn[c]
-----------------------------------------------------------------------------
(* Properties of the signing handlers and of the policy *)

\* the errors of Validate that are policy denials (deny-list, allow-list, over-limit)
PolicyDeniedErrors == {VErrDenied, VErrNotAllowed, VErrOverLimit}

\* `to` is denied, or missing from a non-empty allow list, or the value is over the limit
PolicyRuleHit(intent, policy) ==
    \/ Contains(policy.deny, intent.to)
    \/ Len(policy.allow) > 0 /\ ~Contains(policy.allow, intent.to)
    \/ policy.max.set /\ intent.value.set /\ intent.value.v > policy.max.v

\* C1: an invocation of send_native, send_token or approve_token has signed or
\* broadcast only if its own input carries confirm=true and a non-empty password
C1_SignOnlyWhenConfirmed ==
    (hfx.signed \/ hfx.broadcast) =>
        /\ hcall.confirm = "true"
        /\ hcall.password \notin {"absent", ""}

C1_Witness ==
    /\ hres = "broadcasted" /\ hfx.signed /\ hfx.broadcast
    /\ hcall.tool = "approve_token"
    /\ hcall.confirm = "true" /\ hcall.password = "pw"

\* C8 as claimed: Validate fails with a policy denial exactly when a policy rule is hit
C8_ValidateDeniesIffRuleHit ==
    vResult # "none" =>
        (vResult \in PolicyDeniedErrors <=> PolicyRuleHit(vIntent, vPolicy))

\* C8 as amended: for an intent whose value is present, Validate fails with a policy
\* denial exactly when a policy rule is hit and succeeds otherwise, so a value equal
\* to the limit passes; an intent without a value fails with "value missing"
C8_ValidateDeniesIffRuleHitWithValue ==
    vResult # "none" =>
        IF vIntent.value.set
        THEN /\ vResult \in PolicyDeniedErrors <=> PolicyRuleHit(vIntent, vPolicy)
             /\ vResult = "ok" <=> ~PolicyRuleHit(vIntent, vPolicy)
        ELSE vResult = VErrValueMissing

C8_Witness ==
    /\ vResult = "ok"
    /\ vIntent.value.set /\ vPolicy.max.set
    /\ vIntent.value.v = vPolicy.max.v /\ vPolicy.max.v > 0
    /\ Len(vPolicy.allow) = 2 /\ Len(vPolicy.deny) = 2

\* C9: when the policy denies the intent of an invocation, the handler has built no
\* transaction and no preview, has signed and broadcast nothing, and fails with the
\* policy denial, whatever confirm and password are
C9_PolicyBeforeBuild ==
    LET p == Params(hcall)
        denied == /\ hcall # NoCall
                  /\ InputError(p, henv.accounts) = "ok"
                  /\ Validate(IntentOf(p, henv.accounts), LoadPolicy(henv)) # "ok"
    IN denied =>
          /\ hfx = NoEffects
          /\ hstage = 0 =>
                /\ hres = Validate(IntentOf(p, henv.accounts), LoadPolicy(henv))
                /\ hres \in PolicyDeniedErrors

C9_Witness ==
    /\ hstage = 0 /\ hres = VErrDenied
    /\ hcall.tool = "send_token"
    /\ hcall.confirm = "true" /\ hcall.password = "pw"
    /\ hfx = NoEffects

-----------------------------------------------------------------------------
(* Properties of the keystore signer *)

\* C6: a sign operation that starts after a Lock call has returned never reaches
\* the signing code and returns AccountLocked; once a Lock has returned the key
\* stays nil and zeroed, so a further Lock changes nothing
C6_LockedSignerRefuses ==
    /\ \A t \in Threads :
          (sop[t] \in SignOps /\ safterLock[t]) =>
              /\ spc[t] # "signing"
              /\ spc[t] \in {"ret", "idle"} => sres[t] = "AccountLocked"
    /\ slockReturned => skey = [ptr |-> "nil", d |-> "zero"]

C6_Witness ==
    \E t, u, w \in Threads :
        /\ sop[t] = "sign_tx" /\ safterLock[t] /\ spc[t] = "ret"
        /\ sres[t] = "AccountLocked"
        /\ sop[u] = "lock" /\ safterLock[u] /\ spc[u] = "idle" /\ sres[u] = "locked"
        /\ sop[w] = "sign_message" /\ sres[w] = "signed" /\ ~safterLock[w]

-----------------------------------------------------------------------------
(* Properties of the chain client pool *)

\* C7: whenever a client is cached for a chain name, the chain id that client
\* reported equals the chain id declared for that name (and a URL reporting
\* another id is never cached)
C7_CachedClientMatchesDeclared ==
    \A n \in ChainNames :
        clients[n].open => (chains[n].known /\ clients[n].chainID = chains[n].ChainID)

-----------------------------------------------------------------------------
(* Properties of credential resolution *)

\* the provider's environment variable is set to a non-empty value
EnvSet(id) == aenv[EnvVarForProvider(id)] # ""

\* the config file yields a non-empty key for the provider
ConfigYields(id) == acfg[id] # "" /\ ResolveEnvSubstitution(acfg[id], aenv) # ""

\* C16 as claimed: GetAPIKey returns the environment variable's value whenever it is
\* set and non-empty, and the stored key whenever it is not
C16_EnvOverridesStoredKey ==
    aquery # NoQuery =>
        LET id == aquery.id IN
        IF EnvSet(id)
        THEN aquery.got = [ok |-> TRUE, key |-> aenv[EnvVarForProvider(id)]]
        ELSE aproviders[id].key # "" =>
                aquery.got = [ok |-> TRUE, key |-> aproviders[id].key]

\* C16 as amended: the environment variable's value whenever it is set and
\* non-empty, whatever is stored; otherwise the config file's key when it yields
\* one; otherwise the stored key
C16_EnvThenConfigThenStoredKey ==
    aquery # NoQuery =>
        LET id == aquery.id IN
        IF EnvSet(id)
        THEN aquery.got = [ok |-> TRUE, key |-> aenv[EnvVarForProvider(id)]]
        ELSE IF ConfigYields(id)
        THEN aquery.got = [ok |-> TRUE, key |-> ResolveEnvSubstitution(acfg[id], aenv)]
        ELSE aproviders[id].key # "" =>
                aquery.got = [ok |-> TRUE, key |-> aproviders[id].key]

C16_Witness ==
    /\ aquery.id = "openai" /\ aquery.got = [ok |-> TRUE, key |-> "env-key"]
    /\ aproviders["openai"].key = "sk-1"
    /\ acfg["openai"] = "cfg-key"

\* C17: with nothing from the environment and the config, GetAPIKey returns the
\* stored key of an api credential and the access token of an oauth credential,
\* and fails only when nothing is stored for the provider
C17_StoredCredentialByKind ==
    (aquery # NoQuery /\ ~EnvSet(aquery.id) /\ ~ConfigYields(aquery.id)) =>
        LET cred == aproviders[aquery.id] IN
        /\ cred.type = "api" => aquery.got = [ok |-> TRUE, key |-> cred.key]
        /\ cred.type = "oauth" => aquery.got = [ok |-> TRUE, key |-> cred.access_token]
        /\ ~aquery.got.ok => cred = NoCred

\* C18: HasCredential(id) is true exactly when GetAPIKey(id) succeeds
C18_HasCredentialMirrorsGetAPIKey ==
    aquery # NoQuery => (aquery.has <=> aquery.got.ok)

-----------------------------------------------------------------------------
(* Properties of the credential store *)

\* C19: while every write since the store was opened has succeeded, GetCredential
\* returns for each provider exactly the credential last set and not removed
\* since, and a fresh store loading auth.json gets the AuthData the store holds
C19_StoreRoundTrip ==
    (sstep = "idle" /\ ~shist.failed) =>
        /\ \A id \in AuthIDs :
              GetCredential(id, sdata) =
                  [ok |-> shist.expect[id] # NoCred, cred |-> shist.expect[id]]
        /\ Load(sdisk.file) = sdata

C19_Witness ==
    /\ sstep = "idle" /\ ~shist.failed
    /\ swrite.kind = "remove" /\ swrite.id = "openai"
    /\ sdata.providers["copilot"].refresh_token = "ref"
    /\ sdata.default = "openai"
    /\ sdisk.file.exists

\* C20: at every step auth.json is either absent or a complete serialization with
\* mode 0600, and it changes only by the rename that ends a successful write: a
\* write that fails or is interrupted at any point leaves the file as it was
C20_AuthFileNeverPartial ==
    [][/\ sdisk'.file.exists =>
             /\ sdisk'.file.complete
             /\ sdisk'.file.mode = filePerms
       /\ sdisk'.file # sdisk.file =>
             /\ sstep = "rename" /\ sstep' = "idle"
             /\ sdisk'.file.content = Serialize(sdata)]_vars

C20_Witness ==
    /\ sstep = "dead"
    /\ sdisk.tmp.exists /\ ~sdisk.tmp.complete
    /\ sdisk.file.exists /\ sdisk.file.complete
    /\ Load(sdisk.file) # sdata

\* C21: getClient tries the URLs of the chain in declared order; it returns and
\* caches the client of the first URL that dials and reports the declared chain
\* id, a failed URL is followed by the next one, and when every URL has failed
\* it returns the last error wrapped with the chain name and caches nothing
C21_FirstWorkingURLWins ==
    \A k \in Callers :
        LET n == cop[k].name
            r == cres[k]
        IN (cop[k].op = "get_client" /\ cpc[k] \in {"dial", "ret"} /\ curl[k] > 0) =>
              LET urls == chains[n].RPCURLs IN
              /\ curl[k] <= Len(urls) + 1
              /\ curl[k] > 1 <=> clastErr[k] # "none"
              /\ (cpc[k] = "ret" /\ r.err = "none") =>
                    /\ curl[k] <= Len(urls)
                    /\ r.client = [url |-> urls[curl[k]], chainID |-> chains[n].ChainID,
                                   open |-> TRUE]
                    /\ clients[n] = r.client
              /\ (cpc[k] = "ret" /\ r.err # "none") =>
                    /\ curl[k] = Len(urls) + 1
                    /\ r.err = "failed to connect to" /\ r.chain = n
                    /\ r.last = clastErr[k]
                    /\ ~clients[n].open

C21_Witness ==
    \E k \in Callers :
        /\ cop[k].op = "get_client" /\ cpc[k] = "ret"
        /\ curl[k] = 2 /\ clastErr[k] = "chain ID mismatch"
        /\ cres[k].client.url = "u2" /\ clients["ethereum"].url = "u2"

\* C22: when every URL of a chain reports another chain id, getClient fails with
\* an error whose text holds "chain ID mismatch" and the URLs it tried
C22_MismatchErrorNamesURLs ==
    \A k \in Callers :
        (/\ cop[k].op = "get_client" /\ cpc[k] = "ret"
         /\ cres[k].err = "failed to connect to"
         /\ cres[k].last = "chain ID mismatch") =>
            /\ "chain ID mismatch" \in ErrorNames(cres[k])
            /\ \A i \in 1..(curl[k] - 1) :
                  chains[cop[k].name].RPCURLs[i] \in ErrorNames(cres[k])

\* C23: at most one connection is cached per chain between two Close calls,
\* a caller dials only while nothing is cached for the chain, and a call that
\* finds a cached client returns that client without entering the dial loop
C23_NoSecondDial ==
    /\ \A n \in ChainNames : cdials[n] <= 1
    /\ \A k \in Callers :
          /\ cpc[k] = "dial" => ~clients[cop[k].name].open
          /\ (cop[k].op = "get_client" /\ cpc[k] = "ret" /\ cres[k].err = "none") =>
                cres[k].client = clients[cop[k].name]

C23_Witness ==
    \E k, j \in Callers :
        /\ k # j
        /\ cop[k].op = "get_client" /\ cpc[k] = "ret" /\ curl[k] = 0
        /\ cres[k].client.open
        /\ cop[j].op = "get_client" /\ cop[j].name = cop[k].name
        /\ cpc[j] = "waiting" /\ curl[j] = 0
        /\ cdials[cop[k].name] = 1

MatchingCallback(r) == r.state = oauth.state /\ r.error = "" /\ r.code # ""

\* C24: a code is sent to the token endpoint only when a callback request
\* carried it together with the state generated for the flow; while no request
\* with that state has arrived nothing is sent to the token endpoint and a
\* flow that has ended has failed
C24_ExchangeOnlyAfterStateMatch ==
    /\ Len(oauth.posted) <= 1
    /\ \A i \in DOMAIN oauth.posted :
          \E j \in DOMAIN oauth.handled :
              /\ MatchingCallback(oauth.handled[j])
              /\ oauth.handled[j].code = oauth.posted[i]
    /\ (\A j \in DOMAIN oauth.handled : oauth.handled[j].state # oauth.state) =>
          /\ oauth.posted = <<>> /\ oauth.codeChan = <<>> /\ oauth.pc # "exchange"
          /\ oauth.pc = "done" => ~oauth.result.ok

C24_Witness ==
    /\ oauth.pc = "done"
    /\ Len(oauth.handled) = 1
    /\ oauth.handled[1].state = "" /\ oauth.handled[1].code = "code-a"
    /\ oauth.result.err = "invalid state parameter"
    /\ oauth.posted = <<>>

\* C25: only the first request to /callback counts: a flow that ended on a
\* callback ended on the first one the server handled, and the server handles
\* no second one
C25_OnlyFirstCallbackCounts ==
    /\ Len(oauth.handled) <= 1
    /\ (oauth.pc = "done" /\ oauth.result.from # 0) => oauth.result.from = 1

\* C26: a get_receipt call whose tx_hash parses to a hash the store holds a
\* receipt for on that chain answers from the store, labelled as cached, and
\* makes no chain RPC; a call that did query the chain and got the receipt
\* has stored it
C26_StoredReceiptServedFromStore ==
    (rcpt.call.op = "get_receipt" /\ rcpt.pc = "done") =>
        /\ rcpt.call.stored =>
              /\ rcpt.out.err = "none"
              /\ rcpt.out.first = "Receipt (cached):"
              /\ rcpt.rpcs = 0
        /\ rcpt.out.first = "Receipt:" =>
              /\ ~rcpt.call.stored
              /\ StoreGet(rcpt.store, rcpt.call.chain,
                          HashHex(ParseTxHash(rcpt.call.tx_hash))) # {}

\* C27: a send or approve that waits (wait unset or true) ends its wait either
\* with the receipt found, stored and its status and gas appended to the
\* output, or when 120 s have passed since the broadcast
C27_WaitsUntilReceiptOr120s ==
    (rcpt.call.op \in WaitTools /\ rcpt.call.wait # "false" /\ rcpt.pc = "done") =>
        \/ /\ rcpt.out.line # ""
           /\ \E row \in StoreGet(rcpt.store, rcpt.call.chain, rcpt.call.tx_hash) :
                 row.status = rcpt.out.status /\ row.gas_used = rcpt.out.gas
        \/ /\ rcpt.out.line = ""
           /\ rcpt.now - rcpt.sentAt >= WaitTimeout

\* C28: a lookup makes the HTTP call only when the cache holds no entry that
\* is still within its 6 hours, whatever model id it asks for
C28_FreshEntryMeansNoHTTP == caps.last.http => ~caps.last.fresh

\* C30: the response Chat builds from a stream equals the one it builds from
\* the non-streamed completion of the same message: content of all deltas in
\* order, tool calls merged by index, usage of the chunk that supplied it
C30_StreamedEqualsNonStreamed ==
    (stream.pc = "done" /\ stream.via = "stream") =>
        stream.resp = ChatResponseOf(NonStreamed(stream.chunks))

\* C31: a chat call whose streaming attempt failed sends the request once
\* more, non-streamed, and returns what that attempt returned; a call whose
\* stream was read to the end sends nothing else; no call sends the
\* non-streamed request twice
C31_OneNonStreamedRetry ==
    stream.pc = "done" =>
        /\ Len(SelectSeq(stream.sent, LAMBDA k : k = "plain")) <= 1
        /\ Len(SelectSeq(stream.sent, LAMBDA k : k = "stream")) <= 1
        /\ stream.via = "stream" => stream.sent = << "stream" >>
        /\ stream.via = "plain" =>
              /\ stream.sent \in {<< "stream", "plain" >>, << "plain" >>}
              /\ stream.resp \in {ChatResponseOf(NonStreamed(stream.chunks)),
                                  [NoChatResponse EXCEPT
                                     !.err = "failed to create chat completion"]}

C31_Witness ==
    /\ stream.pc = "done"
    /\ stream.sent = << "stream", "plain" >>
    /\ stream.resp.err = "none" /\ stream.resp.content = "Hello"

\* C32: once the caller's context is cancelled while the OAuth flow is blocked,
\* in its select or in the token exchange, the flow returns
C32_CancelInterruptsFlow ==
    (oauth.ctxDone /\ oauth.pc \in {"select", "exchange"}) ~> (oauth.pc = "done")

\* C33: get_balances queries each chain of its list once, in the order of the
\* list, and gives one row per chain; a failed query gives the error row of
\* that chain and the loop goes on to the chains after it
C33_OneQueryPerChainInOrder ==
    /\ bal.pc = "loop" =>
          /\ bal.i <= Len(bal.chains) + 1
          /\ bal.queries = SubSeq(bal.chains, 1, bal.i - 1)
    /\ (bal.pc = "done" /\ bal.err = "none" /\ bal.chains # << >>) =>
          /\ bal.asked # << >> => bal.chains = bal.asked
          /\ bal.queries = bal.chains
          /\ Len(bal.rows) = Len(bal.chains)
          /\ \A k \in DOMAIN bal.rows : bal.rows[k].chain = bal.chains[k]
    /\ (bal.pc = "done" /\ bal.err # "none") => bal.queries = << >>

C33_Witness ==
    /\ bal.pc = "done"
    /\ bal.asked = <<"base", "ethereum", "base">>
    /\ bal.queries = bal.asked
    /\ bal.rows[1].error /\ ~bal.rows[2].error /\ bal.rows[3].error

\* C34: a transaction is broadcast only in a session in which a preview-only
\* result has been returned before
C34_BroadcastAfterPreview == hfx.broadcast => hseen

\* C37: when a handler that unlocked a signer has returned, the signer's key
\* has been zeroed
C37_SignerLockedAtReturn ==
    (hstage = 0 /\ hcall # NoCall) => hfx.key # "unlocked"

\* C35: a send_token or approve_token whose recipient (resp. spender) is in
\* deny_to, or is missing from a non-empty allow_to, fails with a policy
\* denial and signs and broadcasts nothing
C35_TokenPolicyOnRecipient ==
    LET p == Params(hcall)
        policy == LoadPolicy(henv)
    IN (/\ hcall.tool \in {"send_token", "approve_token"}
        /\ hstage = 0
        /\ InputError(p, henv.accounts) = "ok"
        /\ \/ Contains(policy.deny, p.to)
           \/ Len(policy.allow) > 0 /\ ~Contains(policy.allow, p.to)) =>
           /\ hres \in {VErrDenied, VErrNotAllowed}
           /\ ~hfx.signed /\ ~hfx.broadcast

\* C38: no read of the agent's provider or active model races with a
\* set_provider or set_model: while a caller is inside one of the read
\* accessors, no other caller stands in the body of SetModel or SetProvider
\* about to write the field, i.e. the mutex orders every such access
C38_ProviderReadsUnderMutex ==
    \A c \in Callers : \A d \in Callers \ {c} :
        ~(/\ pc[c] = "reading"
          /\ mu = d
          /\ pc[d] = "locked"
          /\ op[d] \in {"set_model", "set_provider"})

\* C39: when set_credential, remove_credential or set_default has returned an
\* error because save failed, the store in memory is as unchanged as the file:
\* get_credential of every provider and get_default answer what a fresh load
\* of auth.json answers
C39_FailedWriteLeavesMemoryUnchanged ==
    (/\ sstep = "idle"
     /\ shist.failed
     /\ swrite # NoWrite
     /\ sdisk.file.exists => sdisk.file.complete)
        => /\ \A id \in AuthIDs :
                 GetCredential(id, sdata) = GetCredential(id, Load(sdisk.file))
           /\ sdata.default = Load(sdisk.file).default

====
